---- MODULE Spec2Model ----
(***************************************************************************)
(* A model of the question-answering pipeline of the RAG-AI repository:    *)
(* the session memory store (app/memory.py), the scope resolver, the       *)
(* retrieval filter, the grouping of retrieved chunks and the request      *)
(* handler ask_question (app/routes/ask_question.py), together with the    *)
(* stores they read and write.                                             *)
(*                                                                         *)
(* Text is modelled as a sequence of one-character strings, so that the    *)
(* string operations of the code (lower, strip, split, substring search,   *)
(* the regular expressions) are computed and not assumed.  Python's None   *)
(* and the empty string are both the empty sequence: the code only ever    *)
(* tests these values for truthiness.                                      *)
(***************************************************************************)
EXTENDS Integers, Sequences, FiniteSets, TLC

VARIABLES
    chat_history,        \* rows of the chat_history table, in rowid order
    clock,               \* CURRENT_TIMESTAMP of the SQLite server, in seconds
    active_file_memory,  \* app.memory.active_file_memory: session id -> filename
    collection,          \* the Chroma collection of app.core.db (chunks, in insertion order)
    config_collection,   \* the Chroma collection of app.config ("chroma/")
    uploads,             \* the files present in the uploads directory
    ACTIVE_DB_NAME,      \* app.core.db.ACTIVE_DB_NAME
    req,                 \* the requests to /ask: position and local variables
    arg,                 \* input of the function under test (function-level specifications)
    res                  \* its result

vars == <<chat_history, clock, active_file_memory, collection,
          config_collection, uploads, ACTIVE_DB_NAME, req, arg, res>>

-----------------------------------------------------------------------------
(* Characters and strings                                                  *)

None == <<>>

UpperChars == <<"A","B","C","D","E","F","G","H","I","J","K","L","M",
                "N","O","P","Q","R","S","T","U","V","W","X","Y","Z">>
LowerChars == <<"a","b","c","d","e","f","g","h","i","j","k","l","m",
                "n","o","p","q","r","s","t","u","v","w","x","y","z">>
DigitChars == <<"0","1","2","3","4","5","6","7","8","9">>

Range(s) == {s[i] : i \in DOMAIN s}

IsUpper(c) == c \in Range(UpperChars)
IsDigit(c) == c \in Range(DigitChars)
IsSpace(c) == c \in {" ", "\n", "\t"}
\* \w of the re module
IsWordChar(c) == c \in Range(UpperChars) \cup Range(LowerChars) \cup Range(DigitChars) \cup {"_"}

\* str.lower() on one character
LowerChar(c) ==
    IF IsUpper(c) THEN LowerChars[CHOOSE i \in DOMAIN UpperChars : UpperChars[i] = c] ELSE c

\* str.lower()
Lower(s) == [i \in DOMAIN s |-> LowerChar(s[i])]

\* int(d) for one digit character
DigitValue(c) == (CHOOSE i \in DOMAIN DigitChars : DigitChars[i] = c) - 1

\* s[i:] (1-based, inclusive)
Drop(s, i) == SubSeq(s, i, Len(s))

\* p occurs in s at position i
MatchAt(s, p, i) == i >= 1 /\ i + Len(p) - 1 <= Len(s) /\ SubSeq(s, i, i + Len(p) - 1) = p

\* s.startswith(p)
StartsWith(s, p) == MatchAt(s, p, 1)

\* Python's `p in s` on strings
Contains(s, p) == \E i \in 1..(Len(s) + 1) : MatchAt(s, p, i)

\* str.strip()
RECURSIVE LStrip(_)
LStrip(s) == IF s # <<>> /\ IsSpace(Head(s)) THEN LStrip(Tail(s)) ELSE s

RECURSIVE RStrip(_)
RStrip(s) == IF s # <<>> /\ IsSpace(s[Len(s)]) THEN RStrip(SubSeq(s, 1, Len(s) - 1)) ELSE s

Strip(s) == RStrip(LStrip(s))

\* str.replace(a, b) for single characters
ReplaceChar(s, a, b) == [i \in DOMAIN s |-> IF s[i] = a THEN b ELSE s[i]]

\* str.replace(p, "") : remove every (leftmost, non-overlapping) occurrence of p
RECURSIVE RemoveAll(_, _)
RemoveAll(s, p) ==
    IF s = <<>> THEN <<>>
    ELSE IF MatchAt(s, p, 1) THEN RemoveAll(Drop(s, Len(p) + 1), p)
    ELSE <<Head(s)>> \o RemoveAll(Tail(s), p)

\* str.split(c) on a single separator character: always at least one piece
RECURSIVE SplitOn(_, _)
SplitOn(s, c) ==
    IF \A i \in DOMAIN s : s[i] # c THEN <<s>>
    ELSE LET k == CHOOSE i \in DOMAIN s : s[i] = c /\ \A j \in 1..(i - 1) : s[j] # c
         IN  <<SubSeq(s, 1, k - 1)>> \o SplitOn(Drop(s, k + 1), c)

\* str.split() : on runs of whitespace, no empty pieces
RECURSIVE SplitWords(_)
SplitWords(s) ==
    LET t == LStrip(s)
    IN  IF t = <<>> THEN <<>>
        ELSE IF \A i \in DOMAIN t : ~IsSpace(t[i]) THEN <<t>>
        ELSE LET k == CHOOSE i \in DOMAIN t : IsSpace(t[i]) /\ \A j \in 1..(i - 1) : ~IsSpace(t[j])
             IN  <<SubSeq(t, 1, k - 1)>> \o SplitWords(Drop(t, k))

\* sep.join(parts)
RECURSIVE Join(_, _)
Join(parts, sep) ==
    IF parts = <<>> THEN <<>>
    ELSE IF Len(parts) = 1 THEN parts[1]
    ELSE parts[1] \o sep \o Join(Tail(parts), sep)

\* str.splitlines()
RECURSIVE SplitLines(_)
SplitLines(s) ==
    IF s = <<>> THEN <<>>
    ELSE IF \A i \in DOMAIN s : s[i] # "\n" THEN <<s>>
    ELSE LET k == CHOOSE i \in DOMAIN s : s[i] = "\n" /\ \A j \in 1..(i - 1) : s[j] # "\n"
         IN  <<SubSeq(s, 1, k - 1)>> \o SplitLines(Drop(s, k + 1))

\* str(n) for n >= 0
RECURSIVE IntToStr(_)
IntToStr(n) == IF n < 10 THEN <<DigitChars[n + 1]>> ELSE IntToStr(n \div 10) \o <<DigitChars[(n % 10) + 1]>>

\* int(s) for a string of digits
RECURSIVE StrToInt(_)
StrToInt(s) == IF s = <<>> THEN 0 ELSE 10 * StrToInt(SubSeq(s, 1, Len(s) - 1)) + DigitValue(s[Len(s)])

\* Path(name).stem : the name without its last suffix
Stem(name) ==
    LET dots == {i \in DOMAIN name : name[i] = "."}
    IN  IF dots = {} THEN name
        ELSE LET k == CHOOSE i \in dots : \A j \in dots : j <= i
             IN  IF 1 < k /\ k < Len(name) THEN SubSeq(name, 1, k - 1) ELSE name

\* re.search(r"\b<w>\b", s, re.IGNORECASE) for a literal w that starts and ends
\* with a word character
ContainsWord(s, w) ==
    \E i \in 1..(Len(s) - Len(w) + 1) :
        /\ \A k \in DOMAIN w : LowerChar(s[i + k - 1]) = LowerChar(w[k])
        /\ (i = 1 \/ ~IsWordChar(s[i - 1]))
        /\ (i + Len(w) - 1 = Len(s) \/ ~IsWordChar(s[i + Len(w)]))

\* list(set(xs)) keeps one of each; the order is fixed by a later sort or is
\* the order of first occurrence (dict keys)
RECURSIVE DedupKeepFirst(_)
DedupKeepFirst(xs) ==
    IF xs = <<>> THEN <<>>
    ELSE LET init == DedupKeepFirst(SubSeq(xs, 1, Len(xs) - 1))
             x    == xs[Len(xs)]
         IN  IF x \in Range(init) THEN init ELSE Append(init, x)

\* sorted(set_of_ints)
RECURSIVE SortedSeq(_)
SortedSeq(S) ==
    IF S = {} THEN <<>>
    ELSE LET m == CHOOSE x \in S : \A y \in S : x <= y
         IN  <<m>> \o SortedSeq(S \ {m})

Min(a, b) == IF a <= b THEN a ELSE b

-----------------------------------------------------------------------------
(* Bounds of the model                                                     *)

\* turns appended in the specification of the memory store
MaxTurnsMem == 7
\* seconds the clock of the SQLite server advances
MaxClock == 1

-----------------------------------------------------------------------------
(* Users and sessions                                                      *)

Users == { [username |-> <<"a","m","y">>, role |-> "admin"],
           [username |-> <<"b","o","b">>, role |-> "user"] }

DEFAULT_DB == <<"b","o","o","k","s">>

\* session_id = f"{username}-{db_core.ACTIVE_DB_NAME}"
SessionId(username, db_name) == username \o <<"-">> \o db_name

-----------------------------------------------------------------------------
(* Session memory store: app/memory.py                                     *)

\* default of the parameter `limit` of get_session_context
DefaultLimit == 5

\* One row of models.ChatHistory.  The timestamp is the server default
\* CURRENT_TIMESTAMP, which SQLite gives with a resolution of one second.
ChatRow(session_id, role, content, timestamp) ==
    [session_id |-> session_id, role |-> role, content |-> content, timestamp |-> timestamp]

\* ORDER BY timestamp DESC names no second key: the order of rows with equal
\* timestamps is left to the database.  Two of the orders it can produce:
\* ties in rowid order, ties in reverse rowid order.
TieOrders == {"rowid_asc", "rowid_desc"}

RECURSIVE OrderByTimestampDesc(_, _, _)
OrderByTimestampDesc(rows, I, tie) ==
    IF I = {} THEN <<>>
    ELSE LET newest == {i \in I : \A j \in I : rows[j].timestamp <= rows[i].timestamp}
             k == IF tie = "rowid_asc"
                  THEN CHOOSE i \in newest : \A j \in newest : i <= j
                  ELSE CHOOSE i \in newest : \A j \in newest : j <= i
         IN  <<rows[k]>> \o OrderByTimestampDesc(rows, I \ {k}, tie)

Reverse(s) == [i \in DOMAIN s |-> s[Len(s) + 1 - i]]

\* f"{role_label}: {msg.content}"
ContextLine(msg) ==
    (IF msg.role = "user" THEN <<"U","s","e","r">> ELSE <<"A","s","s","i","s","t","a","n","t">>)
        \o <<":", " ">> \o msg.content

get_session_context(history, session_id, limit, tie) ==
    LET rows     == SelectSeq(history, LAMBDA m : m.session_id = session_id)
        ordered  == OrderByTimestampDesc(rows, DOMAIN rows, tie)
        messages == Reverse(SubSeq(ordered, 1, Min(limit * 2, Len(ordered))))
    IN  Join([i \in DOMAIN messages |-> ContextLine(messages[i])], <<"\n">>)

\* update_session_memory with the row of the assistant left out
update_session_memory_user_only(history, session_id, user_text, assistant_text, t_user, t_asst) ==
    Append(history, ChatRow(session_id, "user", user_text, t_user))

\* The two INSERTs of one commit: t_user and t_asst are the values of
\* CURRENT_TIMESTAMP when each executes.
update_session_memory(history, session_id, user_text, assistant_text, t_user, t_asst) ==
    history \o << ChatRow(session_id, "user", user_text, t_user),
                  ChatRow(session_id, "assistant", assistant_text, t_asst) >>

get_last_active_file(memory, session_id) ==
    IF session_id \in DOMAIN memory THEN memory[session_id] ELSE None

\* set_last_active_file that stores nothing
set_last_active_file_nothing(memory, session_id, filename) == memory

set_last_active_file(memory, session_id, filename) ==
    [s \in DOMAIN memory \cup {session_id} |-> IF s = session_id THEN filename ELSE memory[s]]

\* clear_all_active_files with the pointers left in place
clear_all_active_files_keeping(memory) == memory

\* active_file_memory.clear()
clear_all_active_files(memory) == [s \in {} |-> None]

\* SQLite's LIKE, which .like() compiles to: % matches any run of
\* characters, _ any one character, ASCII letters without regard to case
RECURSIVE Like(_, _)
Like(pattern, s) ==
    IF pattern = <<>> THEN s = <<>>
    ELSE IF Head(pattern) = "%"
         THEN Like(Tail(pattern), s) \/ (s # <<>> /\ Like(pattern, Tail(s)))
         ELSE /\ s # <<>>
              /\ (Head(pattern) = "_" \/ LowerChar(Head(pattern)) = LowerChar(Head(s)))
              /\ Like(Tail(pattern), Tail(s))

\* f"%{active_suffix}" with active_suffix = f"-{db_core.ACTIVE_DB_NAME}"
active_suffix_pattern(active_db) == <<"%", "-">> \o active_db

\* clear_logs deleting the rows of every database
clear_logs_every_database(history, active_db) == <<>>

\* DELETE FROM chat_history WHERE session_id LIKE '%-<active database>'
clear_logs(history, active_db) ==
    SelectSeq(history, LAMBDA m : ~Like(active_suffix_pattern(active_db), m.session_id))

-----------------------------------------------------------------------------
(* Initial values shared by the specifications                             *)

\* one request to /ask is in flight at a time
ReqIds == {1}

IdleReq == [pc |-> "idle"]
NoArg == [kind |-> "none"]
NoRes == [kind |-> "none"]

EmptyMemory == [s \in {} |-> None]

\* the stores of a fresh installation, no request in flight
InitStores ==
    /\ chat_history = <<>>
    /\ clock = 0
    /\ active_file_memory = EmptyMemory
    /\ collection = <<>>
    /\ config_collection = <<>>
    /\ uploads = {}
    /\ ACTIVE_DB_NAME = DEFAULT_DB
    /\ req = [r \in ReqIds |-> IdleReq]

InitIdle == InitStores /\ arg = NoArg /\ res = NoRes

\* the variables a function-level specification leaves alone
storeVars == <<chat_history, clock, active_file_memory, collection,
               config_collection, uploads, ACTIVE_DB_NAME, req>>

-----------------------------------------------------------------------------
(* SpecMem: the session memory store on its own.  Turns are appended to    *)
(* the sessions of the users, the clock of the database advances, and the  *)
(* context of a session is read with the default window.                   *)

\* the texts of the k-th turn appended: distinct for distinct turns
TurnUserText(k) == <<"u">> \o IntToStr(k)
TurnAssistantText(k) == <<"a">> \o IntToStr(k)

memVars == <<active_file_memory, collection, config_collection, uploads,
             ACTIVE_DB_NAME, req, arg>>

\* update_session_memory(db, session_id, user_text, assistant_text); the
\* second may pass between its two INSERTs
MemAppendTurn ==
    \E u \in Users, d \in 0..1 :
        LET k == (Len(chat_history) \div 2) + 1
        IN  /\ k <= MaxTurnsMem
            /\ clock + d <= MaxClock
            /\ chat_history' = update_session_memory(chat_history,
                                   SessionId(u.username, ACTIVE_DB_NAME),
                                   TurnUserText(k), TurnAssistantText(k), clock, clock + d)
            /\ clock' = clock + d
            /\ res' = NoRes
            /\ UNCHANGED memVars

\* a second passes
MemTick ==
    /\ clock < MaxClock
    /\ clock' = clock + 1
    /\ UNCHANGED <<chat_history, res>>
    /\ UNCHANGED memVars

\* prior_context = get_session_context(db, session_id)
MemReadContext ==
    \E u \in Users, tie \in TieOrders :
        LET sid == SessionId(u.username, ACTIVE_DB_NAME)
        IN  /\ res' = [kind |-> "context", session_id |-> sid,
                       value |-> get_session_context(chat_history, sid, DefaultLimit, tie)]
            /\ UNCHANGED <<chat_history, clock>>
            /\ UNCHANGED memVars

NextMem == MemAppendTurn \/ MemTick \/ MemReadContext

SpecMem == InitIdle /\ [][NextMem]_vars

\* the turns of a session in the order they were appended, as (user row,
\* assistant row) pairs flattened
SessionRows(session_id) == SelectSeq(chat_history, LAMBDA m : m.session_id = session_id)

\* the text the claim expects: the last min(k, limit) turns, oldest first,
\* each as its User line followed by its Assistant line
ExpectedContext(session_id, limit) ==
    LET rows == SessionRows(session_id)
        n    == Min(2 * limit, Len(rows))
        last == SubSeq(rows, Len(rows) - n + 1, Len(rows))
    IN  Join([i \in DOMAIN last |-> ContextLine(last[i])], <<"\n">>)

\* C1: after any sequence of appended turns, get_session_context with the
\* default window returns exactly the last min(k,5) turns of the session,
\* oldest first, each as its User line followed by its Assistant line.
C1_ContextIsLastTurns ==
    res.kind = "context" => res.value = ExpectedContext(res.session_id, DefaultLimit)

-----------------------------------------------------------------------------
(* Scope resolver: app/routes/ask_question.py, lines 77 to 325             *)

S_None == <<"N","o","n","e">>
S_ALL_FILES == <<"A","L","L","_","F","I","L","E","S">>
S_COMMAND_LIST == <<"C","O","M","M","A","N","D","_","L","I","S","T">>
S_COMMAND_DELETE == <<"C","O","M","M","A","N","D","_","D","E","L","E","T","E",":">>
S_all_files == <<"a","l","l"," ","f","i","l","e","s">>
S_all_documents == <<"a","l","l"," ","d","o","c","u","m","e","n","t","s">>

\* Path(filename).stem.lower() if filename else ""
to_file_id(filename) == IF filename # <<>> THEN Lower(Stem(filename)) ELSE <<>>

\* a handler that knows no debug command
is_debug_command_never(query) == FALSE

\* query.strip().lower().startswith("debug")
is_debug_command(query) == StartsWith(Lower(Strip(query)), <<"d","e","b","u","g">>)

\* a character of the class [\d\s,and&] under re.IGNORECASE
IsPageSectionChar(c) == IsDigit(c) \/ IsSpace(c) \/ LowerChar(c) \in {",", "a", "n", "d", "&"}

\* the length of the longest prefix of s[i..] made of characters of the class
RECURSIVE SectionRun(_, _)
SectionRun(s, i) ==
    IF i <= Len(s) /\ IsPageSectionChar(s[i]) THEN 1 + SectionRun(s, i + 1) ELSE 0

\* re.findall(r"pages?\s+([\d\s,and&]+)", query, re.IGNORECASE), scanning from
\* position i.  After "page" and an optional "s" the pattern needs one
\* whitespace and then one more character of the class; as whitespace is in
\* the class, the match covers the whole run of class characters, and the
\* digits of the captured group are the digits of that run.
RECURSIVE page_section_matches(_, _)
page_section_matches(query, i) ==
    IF i > Len(query) THEN <<>>
    ELSE IF ~MatchAt(Lower(query), <<"p","a","g","e">>, i) THEN page_section_matches(query, i + 1)
    ELSE LET j == IF i + 4 <= Len(query) /\ LowerChar(query[i + 4]) = "s" THEN i + 5 ELSE i + 4
             n == SectionRun(query, j)
         IN  IF j <= Len(query) /\ IsSpace(query[j]) /\ n >= 2
             THEN <<SubSeq(query, j + 1, j + n - 1)>> \o page_section_matches(query, j + n)
             ELSE page_section_matches(query, i + 1)

\* re.findall(r"\d+", section) converted with int()
RECURSIVE section_numbers(_)
section_numbers(section) ==
    IF section = <<>> THEN <<>>
    ELSE IF ~IsDigit(Head(section)) THEN section_numbers(Tail(section))
    ELSE LET n == CHOOSE k \in 1..Len(section) :
                      /\ \A d \in 1..k : IsDigit(section[d])
                      /\ (k = Len(section) \/ ~IsDigit(section[k + 1]))
         IN  <<StrToInt(SubSeq(section, 1, n))>> \o section_numbers(Drop(section, n + 1))

\* target_pages = sorted(list(set(target_pages)))
extract_target_pages(query) ==
    LET sections == page_section_matches(query, 1)
    IN  SortedSeq(UNION {Range(section_numbers(sections[i])) : i \in DOMAIN sections})

risky_words ==
    { <<"t","h","e">>, <<"a">>, <<"a","n">>, <<"o","f">>, <<"i","n">>, <<"a","n","d">>,
      <<"o","r">>, <<"t","o">>, <<"f","o","r">>, <<"f","i","l","e">>, <<"p","d","f">>,
      <<"b","o","o","k">>, <<"s","t","o","r","y">>, <<"a","b","o","u","t">>,
      <<"w","h","a","t">>, <<"h","a","p","p","e","n","s">>, <<"i","s">>,
      <<"d","o","e","s">>, <<"g","r","e","a","t">>, <<"s","t","r","a","n","g","e">>,
      <<"c","a","s","e">>, <<"s","t","u","d","y">>, <<"l","e","g","e","n","d">>,
      <<"i","s","l","a","n","d">>, <<"d","o","c","t","o","r">>, <<"g","u","i","d","e">> }

\* strong keywords chosen by length alone, without the stop-list
strong_keywords_by_length(fname) ==
    SelectSeq(SplitWords(ReplaceChar(ReplaceChar(Lower(Stem(fname)), "-", " "), "_", " ")),
              LAMBDA w : Len(w) > 3)

\* the words of a filename that count as strong keywords
strong_keywords(fname) ==
    LET clean_name == ReplaceChar(ReplaceChar(Lower(Stem(fname)), "-", " "), "_", " ")
        parts == SplitWords(clean_name)
    IN  SelectSeq(parts, LAMBDA w : w \notin risky_words /\ Len(w) > 3)

\* the files one of whose strong keywords occurs in the lowercased query
detected_by_python(query, available_files) ==
    SelectSeq(available_files,
              LAMBDA fname : \E kw \in Range(strong_keywords(fname)) : Contains(Lower(query), kw))

\* the guard of the rescue heuristic
rescue_runs(llm_raw) == Contains(llm_raw, S_None) /\ ~Contains(llm_raw, S_ALL_FILES)

\* llm_raw after the rescue heuristic
rescue(query, llm_raw, available_files) ==
    IF rescue_runs(llm_raw) /\ detected_by_python(query, available_files) # <<>>
    THEN Join(detected_by_python(query, available_files), <<",">>)
    ELSE llm_raw

\* tokens = [t.strip() for t in llm_raw.split(",") if t.strip()]
split_tokens(llm_raw) ==
    LET pieces == SplitOn(llm_raw, ",")
    IN  SelectSeq([i \in DOMAIN pieces |-> Strip(pieces[i])], LAMBDA t : t # <<>>)

\* cutoff=0.6 of get_close_matches, as the fraction CutoffNum / CutoffDen
CutoffNum == 6
CutoffDen == 10

\* the characters of the model in the order of their code points
CodeOrder == <<" ", "&", ",", "-", ".">> \o DigitChars \o <<":">> \o UpperChars
                 \o <<"_">> \o LowerChars

CharCode(c) == CHOOSE i \in DOMAIN CodeOrder : CodeOrder[i] = c

\* Python's s < t on strings
RECURSIVE StrLess(_, _)
StrLess(s, t) ==
    IF t = <<>> THEN FALSE
    ELSE IF s = <<>> THEN TRUE
    ELSE IF Head(s) = Head(t) THEN StrLess(Tail(s), Tail(t))
    ELSE CharCode(Head(s)) < CharCode(Head(t))

\* a[i..i+k-1] = b[j..j+k-1]
CommonBlock(a, i, b, j, k) == \A d \in 0..(k - 1) : a[i + d] = b[j + d]

\* SequenceMatcher.find_longest_match(alo, ahi, blo, bhi) without junk: the
\* longest common block of a[alo..ahi] and b[blo..bhi]; of the longest ones
\* the one that starts earliest in a, and of those the one earliest in b
find_longest_match(a, alo, ahi, b, blo, bhi) ==
    LET blocks == {m \in (alo..ahi) \X (blo..bhi) \X (1..Min(ahi - alo + 1, bhi - blo + 1)) :
                      /\ m[1] + m[3] - 1 <= ahi
                      /\ m[2] + m[3] - 1 <= bhi
                      /\ CommonBlock(a, m[1], b, m[2], m[3])}
    IN  IF blocks = {} THEN <<alo, blo, 0>>
        ELSE CHOOSE m \in blocks : \A o \in blocks :
                 \/ m[3] > o[3]
                 \/ m[3] = o[3] /\ m[1] < o[1]
                 \/ m[3] = o[3] /\ m[1] = o[1] /\ m[2] <= o[2]

\* the number of matched characters: the sum of the sizes of
\* SequenceMatcher.get_matching_blocks()
RECURSIVE matches(_, _, _, _, _, _)
matches(a, alo, ahi, b, blo, bhi) ==
    IF alo > ahi \/ blo > bhi THEN 0
    ELSE LET m == find_longest_match(a, alo, ahi, b, blo, bhi)
         IN  IF m[3] = 0 THEN 0
             ELSE m[3] + matches(a, alo, m[1] - 1, b, blo, m[2] - 1)
                       + matches(a, m[1] + m[3], ahi, b, m[2] + m[3], bhi)

\* SequenceMatcher(None, a, b): ratio() = 2.0 * M / T, kept as the pair <<M, T>>
ratio(a, b) == <<matches(a, 1, Len(a), b, 1, Len(b)), Len(a) + Len(b)>>

\* ratio() >= cutoff  (real_quick_ratio and quick_ratio are upper bounds of
\* ratio and reject nothing that ratio accepts)
ratio_at_least_cutoff(a, b) ==
    LET r == ratio(a, b)
    IN  IF r[2] = 0 THEN TRUE ELSE 2 * r[1] * CutoffDen >= CutoffNum * r[2]

\* difflib.get_close_matches(word, possibilities, n=1, cutoff=0.6): seq2 is
\* the word, seq1 each possibility; the best is the largest (score, x) pair
get_close_matches(word, possibilities) ==
    LET close == {i \in DOMAIN possibilities : ratio_at_least_cutoff(possibilities[i], word)}
        better(x, y) ==
            LET rx == ratio(x, word)
                ry == ratio(y, word)
            IN  \/ rx[1] * ry[2] > ry[1] * rx[2]
                \/ rx[1] * ry[2] = ry[1] * rx[2] /\ (x = y \/ StrLess(y, x))
    IN  IF close = {} THEN <<>>
        ELSE LET best == CHOOSE i \in close :
                             \A j \in close : better(possibilities[i], possibilities[j])
             IN  <<possibilities[best]>>

\* filename_map = {f.lower(): f for f in available_files}: a later file
\* replaces an earlier one with the same lowercase name
filename_map(available_files, key) ==
    LET I == {i \in DOMAIN available_files : Lower(available_files[i]) = key}
    IN  available_files[CHOOSE i \in I : \A j \in I : j <= i]

\* a validation by similarity alone
validate_token_fuzzy_only(t, available_files) == get_close_matches(t, available_files)

\* what one token contributes to `valid`: a sequence of at most one filename
validate_token(t, available_files) ==
    IF t \in Range(available_files) THEN <<t>>
    ELSE IF \E f \in Range(available_files) : Lower(f) = Lower(t)
         THEN <<filename_map(available_files, Lower(t))>>
    ELSE get_close_matches(t, available_files)

RECURSIVE validate_tokens(_, _)
validate_tokens(tokens, available_files) ==
    IF tokens = <<>> THEN <<>>
    ELSE validate_token(Head(tokens), available_files)
             \o validate_tokens(Tail(tokens), available_files)

\* Metadata values are typed, as in Chroma: an int and the string of its
\* digits are different values.
IntVal(n) == [t |-> "int", v |-> n]
StrVal(x) == [t |-> "str", v |-> x]
NoVal == [t |-> "none", v |-> 0]

ValEq(x, y) == x.t = y.t /\ x.v = y.v

\* Python truthiness of a metadata value
Truthy(x) == \/ x.t = "str" /\ x.v # <<>>
             \/ x.t = "int" /\ x.v # 0

\* where-filters: {} , {field: value}, {"$or": [...]}, {"$and": [...]}
NoFilter == [op |-> "none", field |-> "", value |-> NoVal, args |-> <<>>]
FieldEq(field, value) == [op |-> "eq", field |-> field, value |-> value, args |-> <<>>]
FilterOr(fs) == [op |-> "or", field |-> "", value |-> NoVal, args |-> fs]
FilterAnd(fs) == [op |-> "and", field |-> "", value |-> NoVal, args |-> fs]

\* {"$or": [{"file_id": fid}, {"source": fname}]}
one_file_filter(fname) ==
    FilterOr(<< FieldEq("file_id", StrVal(to_file_id(fname))),
                FieldEq("source", StrVal(fname)) >>)

\* a page filter that compares with the int only
page_filter_int_only(target_pages) ==
    FilterOr([i \in DOMAIN target_pages |-> FieldEq("page", IntVal(target_pages[i]))])

\* {"$or": [{"page": p}, {"page": str(p)} for p in target_pages]}
page_filter(target_pages) ==
    FilterOr([i \in 1..(2 * Len(target_pages)) |->
                 IF i % 2 = 1 THEN FieldEq("page", IntVal(target_pages[(i + 1) \div 2]))
                 ELSE FieldEq("page", StrVal(IntToStr(target_pages[i \div 2])))])

\* re.search(r"\b(compare|vs|versus|both)\b", query, re.IGNORECASE)
has_compare_keyword(query) ==
    \/ ContainsWord(query, <<"c","o","m","p","a","r","e">>)
    \/ ContainsWord(query, <<"v","s">>)
    \/ ContainsWord(query, <<"v","e","r","s","u","s">>)
    \/ ContainsWord(query, <<"b","o","t","h">>)

\* re.search(r"\b(all files|all documents)\b", query, re.IGNORECASE)
has_all_files_phrase(query) ==
    ContainsWord(query, S_all_files) \/ ContainsWord(query, S_all_documents)

\* a resolver for which a compare keyword always means all files
resolve_valid_compare_all(query, llm_raw, valid, target_pages, available_files, active_file) ==
    IF valid # <<>> THEN valid
    ELSE IF Contains(llm_raw, S_ALL_FILES) \/ has_all_files_phrase(query)
            \/ has_compare_keyword(query)
         THEN available_files
    ELSE IF active_file # None THEN <<active_file>>
    ELSE <<>>

\* lines 240 to 272: the files of the scope, from the validated tokens
resolve_valid(query, llm_raw, valid, target_pages, available_files, active_file) ==
    LET is_global_compare ==
            \/ has_all_files_phrase(query)
            \/ target_pages = <<>> /\ has_compare_keyword(query)
        widened ==
            IF (Contains(llm_raw, S_ALL_FILES) \/ is_global_compare) /\ valid = <<>>
            THEN available_files ELSE valid
    IN  IF widened # <<>> THEN widened
        ELSE IF has_all_files_phrase(query) THEN available_files
        ELSE IF has_compare_keyword(query)
             THEN (IF target_pages # <<>> /\ active_file # None
                   THEN <<active_file>> ELSE available_files)
        ELSE IF active_file # None THEN <<active_file>>
        ELSE <<>>

\* lines 287 to 325: the where-filter of the vector query
build_filters(query, matched_files, target_pages) ==
    LET multi_file_mode == Len(matched_files) > 1
        matched_file == IF matched_files # <<>> THEN matched_files[1] ELSE None
        file_filters ==
            IF matched_files # <<>> /\ multi_file_mode
            THEN FilterOr([i \in DOMAIN matched_files |-> one_file_filter(matched_files[i])])
            ELSE IF matched_file # None THEN one_file_filter(matched_file)
            ELSE NoFilter
        with_pages ==
            IF target_pages # <<>>
            THEN (IF file_filters # NoFilter
                  THEN FilterAnd(<<file_filters, page_filter(target_pages)>>)
                  ELSE page_filter(target_pages))
            ELSE file_filters
    IN  IF (ContainsWord(query, S_all_files) \/ has_compare_keyword(query))
           /\ ContainsWord(query, S_all_files)
        THEN NoFilter
        ELSE with_pages

\* a scope decision that goes to the active file whenever there is one
scope_decision_active_first(query, llm_raw, available_files, active_file) ==
    LET target_pages == extract_target_pages(query)
        valid == validate_tokens(split_tokens(llm_raw), available_files)
        matched_files == IF active_file # None THEN <<active_file>>
                         ELSE resolve_valid(query, llm_raw, valid, target_pages,
                                            available_files, active_file)
    IN  [ target_pages    |-> target_pages,
          valid           |-> valid,
          matched_files   |-> matched_files,
          multi_file_mode |-> Len(matched_files) > 1,
          matched_file    |-> IF matched_files # <<>> THEN matched_files[1] ELSE None,
          filters         |-> build_filters(query, matched_files, target_pages) ]

\* The scope decision of a request that is not ended by a command: lines 85
\* to 97 and 217 to 325.  llm_raw is the classifier output after the rescue
\* heuristic.
scope_decision(query, llm_raw, available_files, active_file) ==
    LET target_pages == extract_target_pages(query)
        valid == validate_tokens(split_tokens(llm_raw), available_files)
        matched_files == resolve_valid(query, llm_raw, valid, target_pages,
                                       available_files, active_file)
    IN  [ target_pages    |-> target_pages,
          valid           |-> valid,
          matched_files   |-> matched_files,
          multi_file_mode |-> Len(matched_files) > 1,
          matched_file    |-> IF matched_files # <<>> THEN matched_files[1] ELSE None,
          filters         |-> build_filters(query, matched_files, target_pages) ]

\* Chroma's evaluation of a where-filter on the metadata of one chunk
RECURSIVE matches_where(_, _)
matches_where(where, meta) ==
    IF where.op = "eq" THEN ValEq(meta[where.field], where.value)
    ELSE IF where.op = "or" THEN \E i \in DOMAIN where.args : matches_where(where.args[i], meta)
    ELSE IF where.op = "and" THEN \A i \in DOMAIN where.args : matches_where(where.args[i], meta)
    ELSE TRUE

-----------------------------------------------------------------------------
(* The document stores: app/routes/list_files.py, upload.py, delete_file.py *)

S_unknown == <<"u","n","k","n","o","w","n">>

\* The files a user can upload: the name of each and the text of its pages
\* (an empty text is a page without extractable text).
T_text == <<"t","e","x","t">>
T_figure == <<"s","e","e"," ","F","i","g",".">>
F_Report == <<"R","e","p","o","r","t",".","p","d","f">>
F_Gatsby == <<"T","h","e","-","G","r","e","a","t","-","G","a","t","s","b","y",".","p","d","f">>

UploadableFiles ==
    { [filename |-> F_Report,
       pages |-> <<None, None, None, None, None, None, None, T_text, T_figure>>],
      [filename |-> F_Gatsby, pages |-> <<T_text>>] }

\* the number of pages of the file stored under a name in the uploads directory
PhysicalPages(filename) ==
    IF \E f \in UploadableFiles : f.filename = filename
    THEN Len((CHOOSE f \in UploadableFiles : f.filename = filename).pages)
    ELSE 0

\* the metadata upload_file stores with a chunk
ChunkMeta(source, file_id, place, page, pages, chunk_index) ==
    [source |-> source, file_id |-> file_id, place |-> place, page |-> page,
     pages |-> pages, chunk_index |-> chunk_index]

Chunk(meta, document) == [meta |-> meta, document |-> document]

\* int(place) of the places stored in a collection
existing_places(coll) ==
    {coll[i].meta.place.v : i \in {j \in DOMAIN coll : coll[j].meta.place.t = "int"}}

\* get_next_available_place counting the places in use
get_next_available_place_by_count(coll) ==
    Cardinality(existing_places(coll)) + 1

\* the smallest positive integer that is no stored place
get_next_available_place(coll) ==
    CHOOSE n \in 1..(Cardinality(existing_places(coll)) + 1) :
        /\ n \notin existing_places(coll)
        /\ \A m \in 1..(n - 1) : m \in existing_places(coll)

\* normalized_id = Path(file.filename).stem.lower().replace(" ", "-")
upload_file_id(filename) == ReplaceChar(Lower(Stem(filename)), " ", "-")

\* the chunks upload_file adds for a file: one per page with text
RECURSIVE upload_chunks(_, _, _, _)
upload_chunks(file, db_place, page_number, max_pages) ==
    IF page_number > max_pages THEN <<>>
    ELSE LET chunk_text == Strip(file.pages[page_number])
             rest == upload_chunks(file, db_place, page_number + 1, max_pages)
         IN  IF chunk_text = <<>> THEN rest
             ELSE << Chunk(ChunkMeta(StrVal(file.filename), StrVal(upload_file_id(file.filename)),
                                     IntVal(db_place), IntVal(page_number), IntVal(max_pages),
                                     NoVal),
                           chunk_text) >> \o rest

\* the collection after upload_file(file); a duplicate file_id adds nothing
upload_file(coll, file) ==
    IF \E i \in DOMAIN coll : /\ Truthy(coll[i].meta.file_id)
                              /\ coll[i].meta.file_id.v = upload_file_id(file.filename)
    THEN coll
    ELSE coll \o upload_chunks(file, get_next_available_place(coll), 1, Len(file.pages))

\* meta.get("file_id", "unknown")
meta_file_id(meta) == IF meta.file_id.t = "none" THEN S_unknown ELSE meta.file_id.v

\* the last element of a sequence of typed values that is present, else dflt
RECURSIVE LastPresent(_, _)
LastPresent(values, dflt) ==
    IF values = <<>> THEN dflt
    ELSE IF values[Len(values)].t # "none" THEN values[Len(values)]
    ELSE LastPresent(SubSeq(values, 1, Len(values) - 1), dflt)

MaxOf(S) == CHOOSE x \in S : \A y \in S : y <= x

\* one entry of list_files(): the chunks of one file_id
file_summary(coll, file_id) ==
    LET metas == SelectSeq([i \in DOMAIN coll |-> coll[i].meta],
                           LAMBDA m : meta_file_id(m) = file_id)
        total == {metas[i].pages.v : i \in {j \in DOMAIN metas : Truthy(metas[j].pages)}}
    IN  [ file_id     |-> file_id,
          filename    |-> LastPresent([i \in DOMAIN metas |-> metas[i].source], StrVal(None)).v,
          place       |-> LastPresent([i \in DOMAIN metas |-> metas[i].place], NoVal),
          total_pages |-> IF total = {} THEN 0 ELSE MaxOf(total \cup {0}),
          sources     |-> {IF metas[i].source.t = "none" THEN S_unknown ELSE metas[i].source.v :
                               i \in DOMAIN metas} ]

\* list_files() stopping after the first file_id
list_files_first_only(coll) ==
    LET ids == DedupKeepFirst([i \in DOMAIN coll |-> meta_file_id(coll[i].meta)])
        files == [i \in DOMAIN ids \cap {1} |-> file_summary(coll, ids[i])]
    IN  [count |-> Len(files), files |-> files]

\* list_files(): one summary per file_id, in the order of first occurrence
list_files(coll) ==
    LET ids == DedupKeepFirst([i \in DOMAIN coll |-> meta_file_id(coll[i].meta)])
        files == [i \in DOMAIN ids |-> file_summary(coll, ids[i])]
    IN  [count |-> Len(files), files |-> files]

\* collection.delete(where={"file_id": file_id})
delete_where_file_id(coll, file_id) ==
    SelectSeq(coll, LAMBDA c : ~ValEq(c.meta.file_id, StrVal(file_id)))

\* delete_file(file_id) of app/routes/delete_file.py.  It looks the file up
\* with list_files (the collection of app.core.db), deletes the chunks from
\* the collection of app.config and removes the sources from the uploads
\* directory.  The result: found or not, the two stores after the call and
\* the count of the listing it returns.
delete_file(file_id, coll, config_coll, upl) ==
    LET normalized_id == Strip(Lower(file_id))
        all_files == list_files(coll).files
        found == \E i \in DOMAIN all_files : all_files[i].file_id = normalized_id
        matching_file == all_files[CHOOSE i \in DOMAIN all_files :
                                      all_files[i].file_id = normalized_id]
    IN  IF ~found
        THEN [found |-> FALSE, config_collection |-> config_coll, uploads |-> upl,
              remaining_files |-> 0]
        ELSE [found |-> TRUE,
              config_collection |-> delete_where_file_id(config_coll, normalized_id),
              uploads |-> upl \ matching_file.sources,
              remaining_files |-> list_files(coll).count]

-----------------------------------------------------------------------------
(* Retrieval, visual augmentation and grouping:                            *)
(* app/routes/ask_question.py, lines 331 to 549                            *)

\* n_results=10
NResults == 10
\* the re-ranker looks at the top 5 results
TopK == 5
\* score += 10
VisualBonus == 10

RECURSIVE Orderings(_)
Orderings(S) ==
    IF S = {} THEN {<<>>}
    ELSE UNION {{<<x>> \o o : o \in Orderings(S \ {x})} : x \in S}

\* query_collection(...): the chunks that satisfy the filter, nearest first.
\* The distances are those of the embeddings, which the model leaves open:
\* every order of the matching chunks is a possible result, cut to n_results.
query_collection(coll, where, n_results) ==
    LET matching == {i \in DOMAIN coll : matches_where(where, coll[i].meta)}
    IN  { [k \in 1..Min(n_results, Len(o)) |-> coll[o[k]]] : o \in Orderings(matching) }

\* re.search(r"(figure|fig\.|drawing|diagram|schematic|exploded view)", text, re.IGNORECASE)
has_visual_keyword(text) ==
    \E kw \in { <<"f","i","g","u","r","e">>, <<"f","i","g",".">>,
                <<"d","r","a","w","i","n","g">>, <<"d","i","a","g","r","a","m">>,
                <<"s","c","h","e","m","a","t","i","c">>,
                <<"e","x","p","l","o","d","e","d"," ","v","i","e","w">> } :
        Contains(Lower(text), kw)

\* the score with a bonus that does not exceed the base scores
candidate_score_small_bonus(retrieved, i, limit) ==
    (limit - i) + (IF has_visual_keyword(retrieved[i + 1].document) THEN 2 ELSE 0)

\* the score of the candidate at rank i (0 is the nearest) among `limit`
candidate_score(retrieved, i, limit) ==
    (limit - i) + (IF has_visual_keyword(retrieved[i + 1].document) THEN VisualBonus ELSE 0)

\* candidates.sort(key=score, reverse=True); candidates[0]: the rank of the
\* candidate with the highest score, the earliest of those with equal scores
top_candidate(retrieved) ==
    LET limit == Min(TopK, Len(retrieved))
    IN  CHOOSE i \in 0..(limit - 1) : \A j \in 0..(limit - 1) :
            \/ candidate_score(retrieved, i, limit) > candidate_score(retrieved, j, limit)
            \/ candidate_score(retrieved, i, limit) = candidate_score(retrieved, j, limit) /\ i <= j

\* int(x) of a page stored as int or as a string of digits
page_int(x) == IF x.t = "int" THEN x.v ELSE StrToInt(x.v)

\* an augmenter that takes the page of the top candidate whatever its file
visual_augment_any_source(target_pages, matched_file, retrieved) ==
    IF target_pages # <<>> \/ retrieved = <<>>
    THEN [target_pages |-> target_pages, matched_file |-> matched_file]
    ELSE LET top == retrieved[top_candidate(retrieved) + 1].meta
         IN  IF top.page.t = "none"
             THEN [target_pages |-> target_pages, matched_file |-> matched_file]
             ELSE [target_pages |-> Append(target_pages, page_int(top.page)),
                   matched_file |-> matched_file]

\* lines 360 to 398: target_pages and matched_file after the visual augmenter
visual_augment(target_pages, matched_file, retrieved) ==
    IF target_pages # <<>> \/ retrieved = <<>>
    THEN [target_pages |-> target_pages, matched_file |-> matched_file]
    ELSE LET top == retrieved[top_candidate(retrieved) + 1].meta
             detected_source == IF top.source.t = "none" THEN None ELSE top.source.v
             locked == IF matched_file = None THEN detected_source ELSE matched_file
         IN  IF top.page.t = "none"
             THEN [target_pages |-> target_pages, matched_file |-> matched_file]
             ELSE [target_pages |-> IF locked = detected_source
                                    THEN Append(target_pages, page_int(top.page))
                                    ELSE target_pages,
                   matched_file |-> locked]

\* render_page_to_base64(pdf_path, page_number): the overview and the three
\* slices, or nothing when the page is out of range or the rendering raises
render_page_to_base64(filename, page_number, raises) ==
    IF raises \/ page_number - 1 < 0 \/ page_number - 1 >= PhysicalPages(filename)
    THEN <<>>
    ELSE <<0, 1, 2, 3>>

\* a rendering in which the first page that raises ends the loop
RECURSIVE render_pages_until_failure(_, _, _)
render_pages_until_failure(filename, target_pages, failing) ==
    IF target_pages = <<>> \/ Head(target_pages) \in failing THEN <<>>
    ELSE LET p == Head(target_pages)
             image_slices == render_page_to_base64(filename, p, FALSE)
         IN  [i \in DOMAIN image_slices |-> [page |-> p, slice_index |-> image_slices[i]]]
                 \o render_pages_until_failure(filename, Tail(target_pages), failing)

\* lines 404 to 427: the images of the target pages
RECURSIVE render_pages(_, _, _)
render_pages(filename, target_pages, failing) ==
    IF target_pages = <<>> THEN <<>>
    ELSE LET p == Head(target_pages)
             image_slices == render_page_to_base64(filename, p, p \in failing)
         IN  [i \in DOMAIN image_slices |-> [page |-> p, slice_index |-> image_slices[i]]]
                 \o render_pages(filename, Tail(target_pages), failing)

page_images(target_pages, matched_file, upl, failing) ==
    IF target_pages # <<>> /\ matched_file # None /\ matched_file \in upl
    THEN render_pages(matched_file, target_pages, failing)
    ELSE <<>>

\* lines 451 to 474: one source per (filename, page) of the retrieved chunks
sources_list(retrieved) ==
    LET known == SelectSeq([i \in DOMAIN retrieved |-> retrieved[i].meta],
                           LAMBDA m : /\ m.source.t # "none" /\ m.source.v # S_unknown
                                      /\ m.page.t # "none"
                                      /\ ~(m.page.t = "str" /\ m.page.v = S_unknown))
    IN  DedupKeepFirst([i \in DOMAIN known |-> [filename |-> known[i].source.v,
                                                page |-> known[i].page]])

\* a placeholder that names no file
placeholder_chunk_unknown(matched_file, page_num) ==
    Chunk(ChunkMeta(StrVal(S_unknown), StrVal(S_unknown),
                    StrVal(S_unknown), page_num, NoVal, IntVal(0)),
          <<"(","N","o"," ","t","e","x","t",")">>)

\* lines 481 to 491: the chunk synthesized when only an image was found
placeholder_chunk(matched_file, page_num) ==
    Chunk(ChunkMeta(StrVal(matched_file), StrVal(to_file_id(matched_file)),
                    StrVal(S_unknown), page_num, NoVal, IntVal(0)),
          <<"(","N","o"," ","t","e","x","t",")">>)

\* lines 512 to 518: pages, place and source filled in from list_files()
Missing(x) == x.t = "none" \/ (x.t = "str" /\ x.v = S_unknown)

backfill(meta, files) ==
    LET fid == meta_file_id(meta)
    IN  IF \E i \in DOMAIN files : files[i].file_id = fid
        THEN LET f == files[CHOOSE i \in DOMAIN files :
                                /\ files[i].file_id = fid
                                /\ \A j \in DOMAIN files : files[j].file_id = fid => j <= i]
             IN  [meta EXCEPT !.pages  = IF Missing(@) THEN IntVal(f.total_pages) ELSE @,
                              !.place  = IF Missing(@) THEN f.place ELSE @,
                              !.source = IF Missing(@) THEN StrVal(f.filename) ELSE @]
        ELSE meta

\* a grouping that prefers the source filename to the file_id
group_key_source_first(meta) ==
    IF Truthy(meta.source) THEN meta.source.v
    ELSE IF Truthy(meta.file_id) THEN meta.file_id.v
    ELSE <<"u","n","k","n","o","w","n","-","f","i","l","e">>

\* key = file_id or source or "unknown-file"
group_key(meta) ==
    IF Truthy(meta.file_id) THEN meta.file_id.v
    ELSE IF Truthy(meta.source) THEN meta.source.v
    ELSE <<"u","n","k","n","o","w","n","-","f","i","l","e">>

\* meta.get("chunk_index", 0)
chunk_index_of(meta) == IF meta.chunk_index.t = "none" THEN 0 ELSE meta.chunk_index.v

\* the key of info["chunks"].sort(...): (c["chunk_index"], c["chunk_index"])
chunk_sort_key(c) == <<c.chunk_index, c.chunk_index>>

KeyLessEq(k1, k2) == k1[1] < k2[1] \/ (k1[1] = k2[1] /\ k1[2] <= k2[2])

\* list.sort(key=...): stable
RECURSIVE sort_chunks(_)
sort_chunks(chunks) ==
    IF chunks = <<>> THEN <<>>
    ELSE LET m == CHOOSE i \in DOMAIN chunks :
                      /\ \A j \in DOMAIN chunks :
                             KeyLessEq(chunk_sort_key(chunks[i]), chunk_sort_key(chunks[j]))
                      /\ \A j \in 1..(i - 1) :
                             chunk_sort_key(chunks[j]) # chunk_sort_key(chunks[i])
         IN  <<chunks[m]>> \o sort_chunks(SubSeq(chunks, 1, m - 1) \o Drop(chunks, m + 1))

\* lines 526 to 545: the groups, in the order of the first chunk of each
group_chunks(retrieved) ==
    LET keys == DedupKeepFirst([i \in DOMAIN retrieved |-> group_key(retrieved[i].meta)])
        members(key) == SelectSeq(retrieved, LAMBDA c : group_key(c.meta) = key)
    IN  [g \in DOMAIN keys |->
            LET ms == members(keys[g])
            IN  [ key     |-> keys[g],
                  file_id |-> ms[1].meta.file_id,
                  source  |-> ms[1].meta.source,
                  place   |-> ms[1].meta.place,
                  pages   |-> ms[1].meta.pages,
                  chunks  |-> [i \in DOMAIN ms |->
                                  [text |-> ms[i].document,
                                   chunk_index |-> chunk_index_of(ms[i].meta),
                                   page |-> ms[i].meta.page]] ]]

\* lines 526 to 549: the groups with their chunks sorted
grouped_context(retrieved) ==
    LET grouped == group_chunks(retrieved)
    IN  [g \in DOMAIN grouped |-> [grouped[g] EXCEPT !.chunks = sort_chunks(@)]]

-----------------------------------------------------------------------------
(* SpecGroup: the grouping and sorting of a retrieval result on its own.   *)
(* A retrieval result is built chunk by chunk, in any order, from the      *)
(* chunks a collection can hold, and the context groups are computed.      *)

\* chunks of the retrieval result
MaxRetrieved == 3

F_Notes == <<"n","o","t","e","s",".","t","x","t">>

\* The chunks that can be retrieved: the chunks upload_file stores for the
\* uploadable files, and chunks of a database written by earlier ingests,
\* whose metadata has a chunk_index, no page, or no file_id and source.
GroupPool ==
    UNION { Range(upload_chunks(f, 1, 1, Len(f.pages))) : f \in UploadableFiles }
    \cup { Chunk(ChunkMeta(StrVal(F_Notes), StrVal(F_Notes), NoVal, NoVal, NoVal, IntVal(1)),
                 <<"n","1">>),
           Chunk(ChunkMeta(StrVal(F_Notes), StrVal(F_Notes), NoVal, NoVal, NoVal, IntVal(0)),
                 <<"n","0">>),
           Chunk(ChunkMeta(StrVal(F_Report), NoVal, NoVal, IntVal(8), NoVal, NoVal), T_text),
           Chunk(ChunkMeta(NoVal, NoVal, NoVal, IntVal(1), NoVal, NoVal), T_text) }

InitGroup == InitStores /\ arg = [kind |-> "retrieved", chunks |-> <<>>] /\ res = NoRes

\* the vector store returns one more chunk
GroupRetrieve ==
    \E c \in GroupPool :
        /\ Len(arg.chunks) < MaxRetrieved
        /\ arg' = [arg EXCEPT !.chunks = Append(@, c)]
        /\ res' = NoRes
        /\ UNCHANGED storeVars

\* lines 526 to 549 applied to the retrieval result
GroupContext ==
    /\ res' = [kind |-> "grouped", groups |-> grouped_context(arg.chunks)]
    /\ UNCHANGED arg
    /\ UNCHANGED storeVars

NextGroup == GroupRetrieve \/ GroupContext

SpecGroup == InitGroup /\ [][NextGroup]_vars

\* the key the claim gives a chunk: its file_id, else its source, else the sentinel
C7_ExpectedKey(meta) ==
    IF meta.file_id.t = "str" /\ meta.file_id.v # <<>> THEN meta.file_id.v
    ELSE IF meta.source.t = "str" /\ meta.source.v # <<>> THEN meta.source.v
    ELSE <<"u","n","k","n","o","w","n","-","f","i","l","e">>

\* what a group keeps of a chunk
C7_Entry(c) ==
    [text |-> c.document,
     chunk_index |-> IF c.meta.chunk_index.t = "int" THEN c.meta.chunk_index.v ELSE 0,
     page |-> c.meta.page]

C7_Count(s, P(_)) == Cardinality({i \in DOMAIN s : P(s[i])})

RECURSIVE C7_TotalChunks(_)
C7_TotalChunks(groups) ==
    IF groups = <<>> THEN 0 ELSE Len(Head(groups).chunks) + C7_TotalChunks(Tail(groups))

\* C7: grouping is a lossless partition.  No two groups share a key, the
\* chunks of all groups number the chunks retrieved, and each group holds
\* exactly the retrieved chunks whose key (file_id, else source, else
\* "unknown-file") is the group's key, each as often as it was retrieved.
C7_GroupingIsPartition ==
    res.kind = "grouped" =>
        /\ \A g, h \in DOMAIN res.groups : res.groups[g].key = res.groups[h].key => g = h
        /\ C7_TotalChunks(res.groups) = Len(arg.chunks)
        /\ \A i \in DOMAIN arg.chunks :
               \E g \in DOMAIN res.groups :
                   /\ res.groups[g].key = C7_ExpectedKey(arg.chunks[i].meta)
                   /\ C7_Count(res.groups[g].chunks, LAMBDA e : e = C7_Entry(arg.chunks[i]))
                        = C7_Count(arg.chunks,
                                   LAMBDA c : /\ C7_ExpectedKey(c.meta) = res.groups[g].key
                                              /\ C7_Entry(c) = C7_Entry(arg.chunks[i]))

\* a result of three chunks in at least two groups has been grouped, one
\* group holding two chunks that were not retrieved next to each other
C7_Witness ==
    /\ res.kind = "grouped"
    /\ Len(arg.chunks) = 3
    /\ Len(res.groups) = 2
    /\ C7_ExpectedKey(arg.chunks[1].meta) = C7_ExpectedKey(arg.chunks[3].meta)
    /\ C7_ExpectedKey(arg.chunks[1].meta) # C7_ExpectedKey(arg.chunks[2].meta)
    /\ arg.chunks[2].meta.file_id.t = "none"

-----------------------------------------------------------------------------
(* SpecVisual: the visual augmenter on its own.  A question has named pages *)
(* or none and has resolved a file or none; the vector store returns chunk *)
(* after chunk; the augmenter is applied to what has been returned.        *)

\* chunks of the retrieval result given to the augmenter
MaxCandidates == 6

\* The chunks the augmenter can be given, each at most once: pages with text
\* and a page with a figure of two files, and a chunk of an earlier ingest
\* without a page.
VisualPool ==
    { Chunk(ChunkMeta(StrVal(F_Report), StrVal(upload_file_id(F_Report)), IntVal(1),
                      IntVal(7), IntVal(9), NoVal), T_text),
      Chunk(ChunkMeta(StrVal(F_Report), StrVal(upload_file_id(F_Report)), IntVal(1),
                      IntVal(8), IntVal(9), NoVal), T_text),
      Chunk(ChunkMeta(StrVal(F_Report), StrVal(upload_file_id(F_Report)), IntVal(1),
                      IntVal(9), IntVal(9), NoVal), T_figure),
      Chunk(ChunkMeta(StrVal(F_Gatsby), StrVal(upload_file_id(F_Gatsby)), IntVal(2),
                      IntVal(1), IntVal(2), NoVal), T_text),
      Chunk(ChunkMeta(StrVal(F_Gatsby), StrVal(upload_file_id(F_Gatsby)), IntVal(2),
                      IntVal(2), IntVal(2), NoVal), T_text),
      Chunk(ChunkMeta(StrVal(F_Notes), StrVal(F_Notes), NoVal, NoVal, NoVal, IntVal(0)),
            T_figure) }

\* target_pages as extracted from the question
VisualTargetPages == { <<>>, <<8, 9>> }

\* matched_file as the scope resolver left it
VisualMatchedFiles == { None, F_Report, F_Gatsby }

InitVisual ==
    /\ InitStores
    /\ \E tp \in VisualTargetPages, mf \in VisualMatchedFiles :
           arg = [kind |-> "visual", target_pages |-> tp, matched_file |-> mf,
                  chunks |-> <<>>]
    /\ res = NoRes

\* the vector store returns one more chunk
VisualRetrieve ==
    \E c \in VisualPool :
        /\ Len(arg.chunks) < MaxCandidates
        /\ c \notin Range(arg.chunks)
        /\ arg' = [arg EXCEPT !.chunks = Append(@, c)]
        /\ res' = NoRes
        /\ UNCHANGED storeVars

\* lines 360 to 385: whether the re-ranker runs
augmenter_runs(target_pages, retrieved) == target_pages = <<>> /\ retrieved # <<>>

\* the scores of the candidates, by rank
candidate_scores(retrieved) ==
    [i \in 1..Min(TopK, Len(retrieved)) |->
        candidate_score(retrieved, i - 1, Min(TopK, Len(retrieved)))]

\* lines 360 to 398 applied to the retrieval result
VisualAugment ==
    /\ res' = [kind |-> "augmented",
               ran |-> augmenter_runs(arg.target_pages, arg.chunks),
               scores |-> IF augmenter_runs(arg.target_pages, arg.chunks)
                          THEN candidate_scores(arg.chunks) ELSE <<>>,
               top |-> IF augmenter_runs(arg.target_pages, arg.chunks)
                       THEN top_candidate(arg.chunks) ELSE 0,
               augmented |-> visual_augment(arg.target_pages, arg.matched_file, arg.chunks)]
    /\ UNCHANGED arg
    /\ UNCHANGED storeVars

NextVisual == VisualRetrieve \/ VisualAugment

SpecVisual == InitVisual /\ [][NextVisual]_vars

\* the ranks, from 0, of the candidates whose text has a visual keyword
C11_VisualRanks ==
    {i \in 0..(Min(5, Len(arg.chunks)) - 1) : has_visual_keyword(arg.chunks[i + 1].document)}

\* C11: when the augmenter runs on n >= 1 chunks, the candidate at rank i of
\* the top K = min(5, n) has score K - i, plus 10 if its text has a visual
\* keyword; no two candidates have the same score; the chosen candidate has
\* the highest score: it is the best-ranked candidate with a visual keyword
\* if there is one, and the candidate of rank 0 otherwise.
C11_TopCandidateIsBestVisual ==
    (res.kind = "augmented" /\ res.ran) =>
        LET K == Min(5, Len(arg.chunks))
        IN  /\ Len(res.scores) = K
            /\ \A i \in 0..(K - 1) :
                   res.scores[i + 1] = (K - i) + (IF i \in C11_VisualRanks THEN 10 ELSE 0)
            /\ \A i, j \in 1..K : i # j => res.scores[i] # res.scores[j]
            /\ \A j \in 1..K : res.scores[res.top + 1] >= res.scores[j]
            /\ res.top = IF C11_VisualRanks = {} THEN 0
                         ELSE CHOOSE i \in C11_VisualRanks : \A j \in C11_VisualRanks : i <= j

\* five or more candidates with base scores 5, 4, 3, 2, 1, of which only
\* the third has a visual keyword: the third is chosen, with score 13
C11_Witness ==
    /\ res.kind = "augmented" /\ res.ran
    /\ Len(arg.chunks) >= 5
    /\ C11_VisualRanks = {2}
    /\ res.top = 2
    /\ res.scores = <<5, 4, 13, 2, 1>>

-----------------------------------------------------------------------------
(* SpecScope: the scope resolver on its own.  A question is asked against  *)
(* a corpus, with or without an active file, the classifier answers, and   *)
(* the rescue heuristic and the scope decision are computed.               *)

\* The questions asked; named_pages are the page numbers a reader finds
\* named in the text, in ascending order.
ScopeQueries ==
    { [text |-> <<"c","o","m","p","a","r","e"," ","p","a","g","e"," ","8"," ","a","n","d"," ","9">>,
       named_pages |-> <<8, 9>>],
      [text |-> <<"c","o","m","p","a","r","e"," ","p","a","g","e"," ","8"," ","a","n","d"," ","9"," ","i","n"," ","a","l","l"," ","f","i","l","e","s">>,
       named_pages |-> <<8, 9>>],
      [text |-> <<"C","o","m","p","a","r","e"," ","p","a","g","e","s"," ","8",","," ","9"," ","o","f"," ","a","l","l"," ","d","o","c","u","m","e","n","t","s">>,
       named_pages |-> <<8, 9>>],
      [text |-> <<"w","h","a","t"," ","i","s"," ","o","n"," ","p","a","g","e"," ","8">>,
       named_pages |-> <<8>>],
      [text |-> <<"T","e","l","l"," ","m","e"," ","a","b","o","u","t"," ","G","a","t","s","b","y">>,
       named_pages |-> <<>>],
      [text |-> <<"w","h","a","t"," ","i","s"," ","t","h","e"," ","g","r","e","a","t"," ","s","t","o","r","y"," ","a","b","o","u","t">>,
       named_pages |-> <<>>],
      [text |-> <<"c","o","m","p","a","r","e"," ","b","o","t","h">>,
       named_pages |-> <<>>],
      [text |-> <<"s","u","m","m","a","r","i","z","e"," ","a","l","l"," ","f","i","l","e","s">>,
       named_pages |-> <<>>],
      [text |-> <<"r","e","p","o","r","t"," ","v","s"," ","g","a","t","s","b","y"," ","o","n"," ","p","a","g","e"," ","9">>,
       named_pages |-> <<9>>] }

\* what the classifier answers (already stripped)
ScopeLlmOutputs ==
    { <<"N","o","n","e">>,
      <<>>,
      <<"x","y","z">>,
      <<"A","L","L","_","F","I","L","E","S">>,
      <<"R","e","p","o","r","t",".","p","d","f">>,
      <<"r","e","p","o","r","t",".","p","d","f">>,
      <<"G","a","t","s","b","y",".","p","d","f">>,
      <<"T","h","e","-","G","r","e","a","t","-","G","a","t","s","b","y",".","p","d","f",","," ","R","e","p","o","r","t",".","p","d","f">>,
      <<"N","o","n","e",","," ","A","L","L","_","F","I","L","E","S">> }

\* available_files, in the order of list_files()
ScopeCorpora == { <<>>, <<F_Report>>, <<F_Gatsby, F_Report>> }

\* the active file of the session: none, a file of the corpus, a deleted file
ScopeActiveFiles == { None, F_Report, F_Gatsby, F_Notes }

NoScope == [kind |-> "scope"]

InitScope == InitStores /\ arg = NoScope /\ res = NoRes

\* a question arrives and the classifier has answered
ScopeAsk ==
    \E q \in ScopeQueries, l \in ScopeLlmOutputs, fs \in ScopeCorpora, a \in ScopeActiveFiles :
        /\ arg = NoScope \/ res # NoRes
        /\ arg' = [kind |-> "scope", query |-> q, llm_raw |-> l,
                   available_files |-> fs, active_file |-> a]
        /\ res' = NoRes
        /\ UNCHANGED storeVars

\* lines 136 to 167 and 217 to 325
ScopeResolve ==
    /\ arg # NoScope
    /\ LET rescued == rescue(arg.query.text, arg.llm_raw, arg.available_files)
       IN  res' = [kind |-> "scope", llm_raw |-> rescued,
                   decision |-> scope_decision(arg.query.text, rescued,
                                               arg.available_files, arg.active_file)]
    /\ UNCHANGED arg
    /\ UNCHANGED storeVars

NextScope == ScopeAsk \/ ScopeResolve

SpecScope == InitScope /\ [][NextScope]_vars

C5_Case ==
    /\ res.kind = "scope"
    /\ has_compare_keyword(arg.query.text)
    /\ arg.query.named_pages # <<>>
    /\ arg.active_file # None
    /\ res.decision.valid = <<>>
    /\ ~Contains(arg.llm_raw, S_ALL_FILES)

C5_ActiveFileAndPages ==
    /\ res.decision.matched_files = <<arg.active_file>>
    /\ res.decision.matched_file = arg.active_file
    /\ ~res.decision.multi_file_mode
    /\ res.decision.target_pages = arg.query.named_pages
    /\ res.decision.filters = FilterAnd(<<one_file_filter(arg.active_file),
                                          page_filter(arg.query.named_pages)>>)

\* C5 (as amended): for a query with a compare keyword and explicit page
\* numbers, and without the phrase "all files" or "all documents", when the
\* session has an active file, no filename is resolved from the classifier
\* output and the classifier does not request ALL_FILES, the scope is the
\* active file alone, in single-file mode, the target pages are the pages
\* named in the query, and the filter is the AND of the predicate of that
\* file and the page predicate.
C5_ComparePagesStaysOnActiveFile ==
    (C5_Case /\ ~has_all_files_phrase(arg.query.text)) => C5_ActiveFileAndPages

\* "compare page 8 and 9" asked with Report.pdf active in a corpus of two
\* files, the classifier answering None: the scope is Report.pdf, pages 8, 9
C5_Witness ==
    /\ C5_Case
    /\ arg.query.text = <<"c","o","m","p","a","r","e"," ","p","a","g","e"," ","8"," ","a","n","d"," ","9">>
    /\ arg.llm_raw = S_None
    /\ arg.active_file = F_Report
    /\ arg.available_files = <<F_Gatsby, F_Report>>
    /\ res.decision.matched_files = <<F_Report>>
    /\ res.decision.target_pages = <<8, 9>>

\* C5 as stated: the same for every query with a compare keyword and
\* explicit page numbers.
C5_AsStated == C5_Case => C5_ActiveFileAndPages

\* the chunks a filter is evaluated on: those of GroupPool and chunks whose
\* page is stored as a string
FilterPool ==
    GroupPool \cup
    { Chunk(ChunkMeta(StrVal(F_Report), StrVal(<<"r","e","p","o","r","t">>), IntVal(1),
                      StrVal(<<"9">>), IntVal(9), NoVal), T_text),
      Chunk(ChunkMeta(StrVal(F_Gatsby), NoVal, IntVal(2), StrVal(<<"8">>), NoVal, NoVal), T_text) }

\* the file predicate of the claim: file_id is the normalized id of a file
\* of F, or source is a file of F
C6_FilePredicate(meta, F) ==
    \E f \in F : \/ meta.file_id.t = "str" /\ meta.file_id.v = Lower(Stem(f))
                 \/ meta.source.t = "str" /\ meta.source.v = f

\* the page predicate of the claim: page is p or the string of p, p in P
C6_PagePredicate(meta, P) ==
    \E p \in P : \/ meta.page.t = "int" /\ meta.page.v = p
                 \/ meta.page.t = "str" /\ meta.page.v = IntToStr(p)

C6_FilterIsPredicate ==
    LET F == Range(res.decision.matched_files)
        P == Range(res.decision.target_pages)
    IN  \A c \in FilterPool :
            matches_where(res.decision.filters, c.meta)
                <=> /\ F # {} => C6_FilePredicate(c.meta, F)
                    /\ P # {} => C6_PagePredicate(c.meta, P)

\* C6 (as amended): when the query does not contain the phrase "all files",
\* the filter passed to the vector store is satisfied by a chunk exactly
\* when the chunk satisfies the file predicate of the resolved files F (if
\* F is not empty) and the page predicate of the target pages P (if P is
\* not empty).
C6_FilterMatchesScope ==
    (res.kind = "scope" /\ ~ContainsWord(arg.query.text, S_all_files))
        => C6_FilterIsPredicate

\* two files and page 9 are resolved; of the chunks of page 9 some satisfy
\* the filter by file_id, one by its source only, one with a string page
C6_Witness ==
    /\ res.kind = "scope"
    /\ ~ContainsWord(arg.query.text, S_all_files)
    /\ Len(res.decision.matched_files) = 2
    /\ res.decision.target_pages = <<9>>
    /\ \E c \in FilterPool : /\ matches_where(res.decision.filters, c.meta)
                             /\ c.meta.page.t = "str"
    /\ \E c \in FilterPool : /\ ~matches_where(res.decision.filters, c.meta)
                             /\ c.meta.source.t = "str"
                             /\ c.meta.source.v = F_Report
                             /\ c.meta.page.t = "int"

\* C6 as stated: the same for every query that reaches retrieval with
\* resolved files or target pages.
C6_AsStated ==
    (/\ res.kind = "scope"
     /\ res.decision.matched_files # <<>> \/ res.decision.target_pages # <<>>)
        => C6_FilterIsPredicate

\* the strong keywords of the files of the corpora, as a reader of the
\* filenames finds them: words longer than 3 outside the stop-list
C10_StrongKeywords(fname) ==
    IF fname = F_Gatsby THEN { <<"g","a","t","s","b","y">> }
    ELSE IF fname = F_Report THEN { <<"r","e","p","o","r","t">> }
    ELSE {}

\* the files of the corpus one of whose strong keywords occurs in the query
C10_Hits ==
    SelectSeq(arg.available_files,
              LAMBDA f : \E kw \in C10_StrongKeywords(f) : Contains(Lower(arg.query.text), kw))

\* C10 (as amended): the rescue heuristic runs whenever the classifier
\* output contains the literal None and not ALL_FILES.  Then every file of
\* the corpus with a strong keyword occurring in the lowercased query is
\* resolved, and these files replace the classifier's answer; if there is
\* no such file, or the heuristic does not run, the answer stays as it is.
C10_RescueOnLiteralNone ==
    res.kind = "scope" =>
        IF Contains(arg.llm_raw, S_None) /\ ~Contains(arg.llm_raw, S_ALL_FILES) /\ C10_Hits # <<>>
        THEN /\ res.llm_raw = Join(C10_Hits, <<",">>)
             /\ res.decision.valid = C10_Hits
             /\ res.decision.matched_files = C10_Hits
        ELSE res.llm_raw = arg.llm_raw

\* "Tell me about Gatsby" with The-Great-Gatsby.pdf in the corpus and the
\* classifier answering None resolves to that file
C10_Witness ==
    /\ res.kind = "scope"
    /\ arg.query.text = <<"T","e","l","l"," ","m","e"," ","a","b","o","u","t"," ","G","a","t","s","b","y">>
    /\ arg.llm_raw = S_None
    /\ arg.available_files = <<F_Gatsby, F_Report>>
    /\ arg.active_file = F_Report
    /\ res.decision.matched_files = <<F_Gatsby>>

\* C10 as stated: whenever the classifier output yields no valid filename
\* and does not request ALL_FILES, the files with a strong keyword in the
\* query are resolved.
C10_AsStated ==
    (/\ res.kind = "scope"
     /\ validate_tokens(split_tokens(arg.llm_raw), arg.available_files) = <<>>
     /\ ~Contains(arg.llm_raw, S_ALL_FILES)
     /\ C10_Hits # <<>>)
        => res.decision.matched_files = C10_Hits

-----------------------------------------------------------------------------
(* SpecTokens: the validation of one classifier token on its own.  A token *)
(* is written letter by letter, or is one of a few whole names, and is     *)
(* validated against a file list.                                          *)

\* letters of a token written letter by letter
MaxTokenLen == 3

TokenLetters == {"a", "b", "A", "B"}

\* whole tokens: filenames as a classifier may return them
WholeTokens ==
    { F_Report, <<"r","e","p","o","r","t",".","p","d","f">>, <<"R","E","P","O","R","T",".","P","D","F">>,
      <<"R","e","p","r","o","t",".","p","d","f">>, <<"G","a","t","s","b","y",".","p","d","f">>,
      <<"x","y","z">> }

\* available_files: no filename occurs twice
TokenFileLists ==
    { <<>>, <<F_Report>>, <<F_Gatsby, F_Report>>, <<<<"r","e","p","o","r","t",".","p","d","f">>>>,
      <<<<"r","e","p","o","r","t",".","p","d","f">>, <<"R","E","P","O","R","T","-","2",".","P","D","F">>>>,
      <<<<"a","b","b">>>>, <<<<"a","b","b">>, <<"A","B","a">>>>, <<<<"A","B","a">>, <<"a","b","b">>>>,
      <<<<"a","b">>, <<"A","b">>>>, <<<<"A","b">>, <<"a","b">>>>, <<<<"b","a","b">>, <<"a","b","a">>>>,
      <<<<"B">>, <<"a","a","B">>>> }

InitTokens ==
    /\ InitStores
    /\ \E fs \in TokenFileLists : arg = [kind |-> "token", t |-> <<>>, available_files |-> fs]
    /\ res = NoRes

\* one more letter of the token
TokenLetter ==
    \E c \in TokenLetters :
        /\ Len(arg.t) < MaxTokenLen
        /\ Range(arg.t) \subseteq TokenLetters
        /\ arg' = [arg EXCEPT !.t = Append(@, c)]
        /\ res' = NoRes
        /\ UNCHANGED storeVars

\* the token is a whole name
TokenWhole ==
    \E w \in WholeTokens :
        /\ arg.t = <<>>
        /\ arg' = [arg EXCEPT !.t = w]
        /\ res' = NoRes
        /\ UNCHANGED storeVars

\* lines 222 to 238 for one token (tokens are not empty)
TokenValidate ==
    /\ arg.t # <<>>
    /\ res' = [kind |-> "token", valid |-> validate_token(arg.t, arg.available_files)]
    /\ UNCHANGED arg
    /\ UNCHANGED storeVars

NextTokens == TokenLetter \/ TokenWhole \/ TokenValidate

SpecTokens == InitTokens /\ [][NextTokens]_vars

\* the known filenames at similarity >= 0.6 to the token
C9_Close == {f \in Range(arg.available_files) : ratio_at_least_cutoff(f, arg.t)}

\* f is at least as similar to the token as g: M_f / T_f >= M_g / T_g
C9_AsSimilar(f, g) ==
    ratio(f, arg.t)[1] * ratio(g, arg.t)[2] >= ratio(g, arg.t)[1] * ratio(f, arg.t)[2]

C9_Exact == arg.t \in Range(arg.available_files)

C9_CaseInsensitive == \E f \in Range(arg.available_files) : Lower(f) = Lower(arg.t)

\* C9 (as amended): a token resolves to at most one filename, a member of
\* the file list: itself if it is a known filename; else a known filename
\* equal to it up to case; else a known filename at similarity >= 0.6 of
\* the highest similarity; else nothing.  Consequently a token with no
\* exact and no case-insensitive match resolves to the one filename at
\* similarity >= 0.6 if there is exactly one, and to none if all filenames
\* are below the threshold.
C9_TokenResolution ==
    res.kind = "token" =>
        /\ Len(res.valid) <= 1
        /\ Range(res.valid) \subseteq Range(arg.available_files)
        /\ C9_Exact => res.valid = <<arg.t>>
        /\ (~C9_Exact /\ C9_CaseInsensitive)
               => res.valid # <<>> /\ Lower(res.valid[1]) = Lower(arg.t)
        /\ (~C9_Exact /\ ~C9_CaseInsensitive) =>
               /\ C9_Close = {} => res.valid = <<>>
               /\ C9_Close # {} =>
                      /\ res.valid # <<>>
                      /\ res.valid[1] \in C9_Close
                      /\ \A g \in C9_Close : C9_AsSimilar(res.valid[1], g)
               /\ \A f \in C9_Close : C9_Close = {f} => res.valid = <<f>>

\* a misspelt token resolves by similarity to the one filename that is
\* close to it, in a corpus of two files
C9_Witness ==
    /\ res.kind = "token"
    /\ arg.t = <<"R","e","p","r","o","t",".","p","d","f">>
    /\ arg.available_files = <<F_Gatsby, F_Report>>
    /\ ~C9_Exact /\ ~C9_CaseInsensitive
    /\ C9_Close = {F_Report}
    /\ res.valid = <<F_Report>>

\* C9 as stated: every token at similarity >= 0.6 to exactly one known
\* filename resolves to that filename, every token below the threshold for
\* all filenames resolves to none, and every result is a known filename.
C9_AsStated ==
    res.kind = "token" =>
        /\ Len(res.valid) <= 1
        /\ Range(res.valid) \subseteq Range(arg.available_files)
        /\ \A f \in C9_Close : C9_Close = {f} => res.valid = <<f>>
        /\ C9_Close = {} => res.valid = <<>>

-----------------------------------------------------------------------------
(* The request handler ask_question: app/routes/ask_question.py, 49 to 835 *)

\* lines 68 to 75: the lines of the prior context that mention no ".pdf" or
\* mention the active file
filter_prior_context(prior_context, active_file) ==
    IF active_file = None THEN prior_context
    ELSE Join(SelectSeq(SplitLines(prior_context),
                        LAMBDA line : \/ ~Contains(Lower(line), <<".","p","d","f">>)
                                      \/ Contains(Lower(line), Lower(active_file))),
              <<"\n">>)

\* the answers ask_question gives without the answer model
M_empty == <<"T","h","e"," ","d","a","t","a","b","a","s","e"," ","i","s"," ","e","m","p","t","y",".">>
M_refusal == <<"I","'","m"," ","s","o","r","r","y",","," ","I"," ","c","a","n","n","o","t"," ","d","e","l","e","t","e"," ","t","h","a","t"," ","f","i","l","e","."," ","Y","o","u"," ","d","o"," ","n","o","t"," ","h","a","v","e"," ","a","d","m","i","n","i","s","t","r","a","t","o","r"," ","p","r","i","v","i","l","e","g","e","s",".">>
M_no_documents == <<"N","o"," ","r","e","l","e","v","a","n","t"," ","d","o","c","u","m","e","n","t","s"," ","f","o","u","n","d",".">>

\* a response of /ask; `failed` names the call whose exception ended the request
Response(kind, answer, files, used_files, sources) ==
    [kind |-> kind, answer |-> answer, files |-> files, used_files |-> used_files,
     sources |-> sources, failed |-> ""]

ErrorResponse(call) ==
    [kind |-> "error", answer |-> <<>>, files |-> <<>>, used_files |-> <<>>,
     sources |-> <<>>, failed |-> call]

\* int(x.get("place", 0) or 0)
place_key(f) == IF Truthy(f.place) THEN page_int(f.place) ELSE 0

\* files.sort(key=lambda x: int(x.get("place", 0) or 0)): stable
RECURSIVE sort_by_place(_)
sort_by_place(files) ==
    IF files = <<>> THEN <<>>
    ELSE LET m == CHOOSE i \in DOMAIN files :
                      /\ \A j \in DOMAIN files : place_key(files[i]) <= place_key(files[j])
                      /\ \A j \in 1..(i - 1) : place_key(files[j]) # place_key(files[i])
         IN  <<files[m]>> \o sort_by_place(SubSeq(files, 1, m - 1) \o Drop(files, m + 1))

\* lines 169 to 191: the response to a list command
list_response(files_info) ==
    IF files_info.count = 0
    THEN Response("empty", M_empty, <<>>, <<>>, <<>>)
    ELSE LET files == sort_by_place(files_info.files)
         IN  Response("listing", <<>>,
                      [i \in DOMAIN files |-> [filename |-> files[i].filename,
                                               place |-> files[i].place,
                                               pages |-> files[i].total_pages]],
                      <<>>, <<>>)

\* the delete command with the check of the role left out
delete_allowed_any(user) == TRUE

\* user.get("role") != "admin" refuses the deletion
delete_allowed(user) == user.role = "admin"

\* target_filename = llm_raw.replace("COMMAND_DELETE:", "").strip()
delete_target(llm_raw) == Strip(RemoveAll(llm_raw, S_COMMAND_DELETE))

\* next((f["file_id"] for f in files if f["filename"] == target_filename), None)
matched_file_id(files, target_filename) ==
    LET I == {i \in DOMAIN files : files[i].filename = target_filename}
    IN  IF I = {} THEN None ELSE files[CHOOSE i \in I : \A j \in I : i <= j].file_id

\* re.search(r"\b(list|show|what files|available files|which files)\b", query, re.IGNORECASE)
is_file_listing_query(query) ==
    \E w \in { <<"l","i","s","t">>, <<"s","h","o","w">>,
               <<"w","h","a","t"," ","f","i","l","e","s">>,
               <<"a","v","a","i","l","a","b","l","e"," ","f","i","l","e","s">>,
               <<"w","h","i","c","h"," ","f","i","l","e","s">> } : ContainsWord(query, w)

\* included_files = [{"file_id": ..., "filename": ...} for info in grouped.values()]
included_files(grouped) ==
    [g \in DOMAIN grouped |-> [file_id |-> grouped[g].file_id, filename |-> grouped[g].source]]

\* lines 725 to 766 handling the first tool call only
tool_messages_first_only(tool_calls) ==
    [i \in DOMAIN tool_calls \cap {1} |->
        [role |-> "tool", tool_call_id |-> tool_calls[i].id,
         content |-> IF tool_calls[i].name = "list_files" THEN "files"
                     ELSE IF tool_calls[i].name = "find_best_file_match" THEN "matches"
                     ELSE "No handler implemented"]]

\* lines 725 to 766: one tool message per tool call, in the order of the
\* calls.  The content is the listing of list_files, the matches of
\* find_best_file_match, or the text for a name without a handler.
tool_messages(tool_calls) ==
    [i \in DOMAIN tool_calls |->
        [role |-> "tool", tool_call_id |-> tool_calls[i].id,
         content |-> IF tool_calls[i].name = "list_files" THEN "files"
                     ELSE IF tool_calls[i].name = "find_best_file_match" THEN "matches"
                     ELSE "No handler implemented"]]

\* lines 642 to 651: user_prompt, the text of the user message of round 1
user_prompt(prior_context, context, query) ==
    <<"-","-","-"," ","P","r","i","o","r"," ","C","o","n","v","e","r","s","a","t","i","o","n"," ","-","-","-","\n">> \o prior_context
        \o <<"\n","-","-","-"," ","R","e","t","r","i","e","v","e","d"," ","C","o","n","t","e","x","t"," ","-","-","-","\n">> \o context
        \o <<"\n","-","-","-"," ","N","e","w"," ","Q","u","e","s","t","i","o","n"," ","-","-","-","\n">> \o query

\* lines 659 to 705: user_content, the parts of the user message of round 1:
\* the prompt, then for each rendered image the image and its caption
RECURSIVE image_parts(_)
image_parts(images) ==
    IF images = <<>> THEN <<>>
    ELSE << [type |-> "image_url", text |-> <<>>,
             page |-> Head(images).page, slice_index |-> Head(images).slice_index],
            [type |-> "text",
             text |-> <<"(","A","t","t","a","c","h","e","d"," ","I","m","a","g","e",":"," ","P","a","g","e"," ">> \o IntToStr(Head(images).page),
             page |-> Head(images).page, slice_index |-> Head(images).slice_index] >>
         \o image_parts(Tail(images))

user_content(prompt, images) ==
    << [type |-> "text", text |-> prompt, page |-> 0, slice_index |-> 0] >>
        \o image_parts(images)

\* lines 772 to 780: the messages of the follow-up call
follow_up_messages(query, message, tool_msgs) ==
    << [role |-> "system"], [role |-> "user", content |-> query],
       [role |-> "assistant", tool_calls |-> message.tool_calls] >> \o tool_msgs

-----------------------------------------------------------------------------
(* Spec: the server answering one request at a time.  Files are uploaded   *)
(* between questions; a question runs from its arrival through the awaits  *)
(* of ask_question (classifier, embedding, answer model, follow-up) to its *)
(* response, each external call returning or raising.                      *)

\* turns in the turn log after which no further question is asked
MaxTurns == 1

Q_list == <<"l","i","s","t"," ","f","i","l","e","s">>
Q_delete == <<"d","e","l","e","t","e"," ","R","e","p","o","r","t",".","p","d","f">>
Q_page == <<"w","h","a","t"," ","i","s"," ","o","n"," ","p","a","g","e"," ","9">>
Q_gatsby == <<"T","e","l","l"," ","m","e"," ","a","b","o","u","t"," ","G","a","t","s","b","y">>
Q_debug == <<"d","e","b","u","g">>
Q_pages == <<"p","a","g","e","s"," ","3",","," ","4",","," ","1","2">>

AskQueries == {Q_list, Q_delete, Q_page, Q_gatsby, Q_debug, Q_pages}

S_delete_report == S_COMMAND_DELETE \o <<" ">> \o F_Report

\* inference.choices[0].message.content of the classifier
ClassifierOutputs ==
    { S_None, S_COMMAND_LIST, S_delete_report, F_Report,
      S_COMMAND_LIST \o <<" ">> \o S_delete_report }

A_ok == <<"o","k">>

\* completion.choices[0].message of the answer model: a text, or tool calls
ChatResponses ==
    { [content |-> A_ok, tool_calls |-> <<>>],
      [content |-> None, tool_calls |-> <<>>],
      [content |-> None, tool_calls |-> << [id |-> 7, name |-> "get_weather"],
                                           [id |-> 3, name |-> "find_best_file_match"],
                                           [id |-> 5, name |-> "list_files"] >>] }

\* second_response.choices[0].message: its text is the answer; tool calls it
\* may carry are not looked at
FollowUpResponses ==
    { [content |-> A_ok, tool_calls |-> <<>>],
      [content |-> A_ok, tool_calls |-> << [id |-> 9, name |-> "list_files"] >>] }

NoResponse == Response("none", <<>>, <<>>, <<>>, <<>>)

\* the local variables of a request that has returned
Finished(q, response) ==
    [q EXCEPT !.pc = IF response.kind = "error" THEN "error" ELSE "done",
              !.prior_context = None, !.files_info = list_files(<<>>),
              !.target_pages = <<>>, !.filters = NoFilter, !.included_files = <<>>,
              !.sources_list = <<>>, !.page_images = <<>>, !.vision_fallback = <<>>,
              !.tool_calls = <<>>,
              !.tool_messages = <<>>, !.follow_up = <<>>, !.response = response]

\* POST /upload of one file, between two questions
UploadFile ==
    \E f \in UploadableFiles :
        /\ \A r \in ReqIds : req[r].pc = "idle"
        /\ uploads' = uploads \cup {f.filename}
        /\ collection' = upload_file(collection, f)
        /\ UNCHANGED <<chat_history, clock, active_file_memory, config_collection,
                       ACTIVE_DB_NAME, req, arg, res>>

\* lines 49 to 133: a question arrives; up to the await of the classifier
Begin(r) ==
    \E user \in Users, query \in AskQueries, tie \in TieOrders :
        LET session_id == SessionId(user.username, ACTIVE_DB_NAME)
            active_file == get_last_active_file(active_file_memory, session_id)
            started ==
                [ pc |-> "classify", user |-> user, query |-> query,
                  session_id |-> session_id,
                  prior_context |->
                      filter_prior_context(
                          get_session_context(chat_history, session_id, DefaultLimit, tie),
                          active_file),
                  active_file |-> active_file,
                  target_pages |-> extract_target_pages(query),
                  files_info |-> list_files(collection),
                  llm_raw |-> None, matched_files |-> <<>>, matched_file |-> None,
                  filters |-> NoFilter, included_files |-> <<>>, sources_list |-> <<>>,
                  n_retrieved |-> 0, page_images |-> <<>>, vision_fallback |-> <<>>,
                  render_failed |-> {},
                  tool_calls |-> <<>>, tool_messages |-> <<>>,
                  follow_up |-> <<>>, dispatched |-> 0,
                  calls |-> <<"classify">>, response |-> NoResponse ]
        IN  /\ req[r].pc = "idle"
            /\ Len(chat_history) < 2 * MaxTurns
            /\ req' = [req EXCEPT ![r] =
                          IF is_debug_command(query)
                          THEN Finished([started EXCEPT !.calls = <<>>],
                                        Response("debug", <<>>, <<>>, <<>>, <<>>))
                          ELSE started]
            /\ UNCHANGED <<chat_history, clock, active_file_memory, collection,
                           config_collection, uploads, ACTIVE_DB_NAME, arg, res>>

\* an external call raises: the exception ends the request
Raise(r, pc, call) ==
    /\ req[r].pc = pc
    /\ req' = [req EXCEPT ![r] = Finished(@, ErrorResponse(call))]
    /\ UNCHANGED <<chat_history, clock, active_file_memory, collection,
                   config_collection, uploads, ACTIVE_DB_NAME, arg, res>>

ClassifyFail(r) == Raise(r, "classify", "classify")

available_files_of(files_info) ==
    [i \in DOMAIN files_info.files |-> files_info.files[i].filename]

\* lines 193 to 215: the delete command of an administrator
DeleteCommand(r, q, target_filename, file_id) ==
    IF file_id = None
    THEN /\ req' = [req EXCEPT ![r] =
                       Finished(q, Response("not_found", target_filename, <<>>, <<>>, <<>>))]
         /\ UNCHANGED <<active_file_memory, config_collection, uploads>>
    ELSE \/ /\ req' = [req EXCEPT ![r] =
                          Finished(q, Response("deleted",
                                               IntToStr(delete_file(file_id, collection,
                                                   config_collection, uploads).remaining_files),
                                               <<>>, <<>>, <<>>))]
            /\ config_collection' =
                   delete_file(file_id, collection, config_collection, uploads).config_collection
            /\ uploads' = delete_file(file_id, collection, config_collection, uploads).uploads
            /\ UNCHANGED active_file_memory
         \/ \* delete_file raises: the exception is caught and reported
            /\ req' = [req EXCEPT ![r] =
                          Finished(q, Response("delete_error", target_filename, <<>>, <<>>, <<>>))]
            /\ UNCHANGED <<active_file_memory, config_collection, uploads>>

\* lines 217 to 285: the scope is decided and the active file remembered
Scoped(r, q, decision) ==
    /\ req' = [req EXCEPT ![r] =
                  [q EXCEPT !.pc = "embed",
                            !.matched_files = decision.matched_files,
                            !.matched_file = decision.matched_file,
                            !.filters = decision.filters,
                            !.calls = Append(@, "embed")]]
    /\ active_file_memory' =
           IF decision.matched_file # None
           THEN set_last_active_file(active_file_memory, q.session_id, decision.matched_file)
           ELSE active_file_memory
    /\ UNCHANGED <<config_collection, uploads>>

\* lines 169 to 285 with llm_raw as the rescue heuristic left it (q.llm_raw)
Classified(r, q) ==
    IF Contains(q.llm_raw, S_COMMAND_LIST)
    THEN /\ req' = [req EXCEPT ![r] = Finished(q, list_response(q.files_info))]
         /\ UNCHANGED <<active_file_memory, config_collection, uploads>>
    ELSE IF Contains(q.llm_raw, S_COMMAND_DELETE)
    THEN IF ~delete_allowed(q.user)
         THEN /\ req' = [req EXCEPT ![r] =
                            Finished(q, Response("refusal", M_refusal, <<>>, <<>>, <<>>))]
              /\ UNCHANGED <<active_file_memory, config_collection, uploads>>
         ELSE DeleteCommand(r, q, delete_target(q.llm_raw),
                            matched_file_id(q.files_info.files, delete_target(q.llm_raw)))
    ELSE Scoped(r, q, scope_decision(q.query, q.llm_raw, available_files_of(q.files_info),
                                     q.active_file))

\* lines 134 to 285: the classifier has answered; the rescue heuristic, the
\* list and delete commands, the scope decision, up to the await of the
\* embedding
ClassifyReturn(r) ==
    \E out \in ClassifierOutputs :
        /\ req[r].pc = "classify"
        /\ Classified(r, [req[r] EXCEPT !.llm_raw =
                             rescue(req[r].query, Strip(out),
                                    available_files_of(req[r].files_info))])
        /\ UNCHANGED <<chat_history, clock, collection, ACTIVE_DB_NAME, arg, res>>

EmbedFail(r) == Raise(r, "embed", "embed")

\* query_collection raises
VectorQueryFail(r) ==
    /\ req[r].pc = "embed"
    /\ req' = [req EXCEPT ![r] = Finished([@ EXCEPT !.calls = Append(@, "query")],
                                          ErrorResponse("query"))]
    /\ UNCHANGED <<chat_history, clock, active_file_memory, collection,
                   config_collection, uploads, ACTIVE_DB_NAME, arg, res>>

\* lines 476 to 549: the placeholder of an image-only page, the metadata
\* filled in from list_files(), the groups
context_groups(retrieved, matched_file, page_num, files) ==
    grouped_context(
        IF retrieved = <<>>
        THEN <<[placeholder_chunk(matched_file, page_num) EXCEPT !.meta = backfill(@, files)]>>
        ELSE [i \in DOMAIN retrieved |-> [retrieved[i] EXCEPT !.meta = backfill(@, files)]])

\* page_num = target_pages[0] if target_pages else None
page_num_of(target_pages) == IF target_pages # <<>> THEN IntVal(target_pages[1]) ELSE NoVal

\* lines 480 to 492: the documents of the vision fallback, none when the
\* vector query returned chunks
vision_fallback(retrieved, matched_file, page_num) ==
    IF retrieved = <<>> THEN <<placeholder_chunk(matched_file, page_num)>> ELSE <<>>

\* a handler that builds its filter again from the pages of the augmenter
Rendered_refiltering(r, q, retrieved, augmented, images) ==
    req' = [req EXCEPT ![r] =
               IF retrieved = <<>> /\ (images = <<>> \/ augmented.matched_file = None)
               THEN Finished([q EXCEPT !.n_retrieved = Len(retrieved)],
                             Response("no_documents", M_no_documents, <<>>, <<>>, <<>>))
               ELSE [q EXCEPT !.pc = "chat",
                              !.target_pages = augmented.target_pages,
                              !.matched_file = augmented.matched_file,
                              !.n_retrieved = Len(retrieved),
                              !.filters = build_filters(q.query, q.matched_files,
                                                        augmented.target_pages),
                              !.page_images = images,
                              !.vision_fallback =
                                  vision_fallback(retrieved, augmented.matched_file,
                                                  page_num_of(q.target_pages)),
                              !.sources_list = sources_list(retrieved),
                              !.included_files =
                                  included_files(
                                      context_groups(retrieved, augmented.matched_file,
                                                     page_num_of(q.target_pages),
                                                     list_files(collection).files)),
                              !.calls = Append(@, "chat")]]

\* lines 399 to 711 with the pages rendered; q.render_failed are the pages
\* whose rendering raised
Rendered(r, q, retrieved, augmented, images) ==
    req' = [req EXCEPT ![r] =
               IF retrieved = <<>> /\ (images = <<>> \/ augmented.matched_file = None)
               THEN Finished([q EXCEPT !.n_retrieved = Len(retrieved)],
                             Response("no_documents", M_no_documents, <<>>, <<>>, <<>>))
               ELSE [q EXCEPT !.pc = "chat",
                              !.target_pages = augmented.target_pages,
                              !.matched_file = augmented.matched_file,
                              !.n_retrieved = Len(retrieved),
                              !.page_images = images,
                              !.vision_fallback =
                                  vision_fallback(retrieved, augmented.matched_file,
                                                  page_num_of(q.target_pages)),
                              !.sources_list = sources_list(retrieved),
                              !.included_files =
                                  included_files(
                                      context_groups(retrieved, augmented.matched_file,
                                                     page_num_of(q.target_pages),
                                                     list_files(collection).files)),
                              !.calls = Append(@, "chat")]]

\* lines 345 to 711 with the result of the vector query; the rendering of
\* each target page may raise
Retrieved(r, q, retrieved, augmented) ==
    \E failing \in SUBSET Range(augmented.target_pages) :
        /\ failing # {} => /\ augmented.matched_file # None
                           /\ augmented.matched_file \in uploads
        /\ Rendered(r, [q EXCEPT !.render_failed = failing], retrieved, augmented,
                    page_images(augmented.target_pages, augmented.matched_file,
                                uploads, failing))

\* lines 331 to 711: the embedding has returned; the vector query, the
\* visual augmenter, the rendering of the pages, the sources, the grouping,
\* up to the await of the answer model
EmbedReturn(r) ==
    /\ req[r].pc = "embed"
    /\ \E retrieved \in query_collection(collection, req[r].filters, NResults) :
           Retrieved(r, [req[r] EXCEPT !.calls = Append(@, "query")], retrieved,
                     visual_augment(req[r].target_pages, req[r].matched_file, retrieved))
    /\ UNCHANGED <<chat_history, clock, active_file_memory, collection,
                   config_collection, uploads, ACTIVE_DB_NAME, arg, res>>

ChatFail(r) == Raise(r, "chat", "chat")

\* lines 786 to 835: the answer is final; the sources, the turn appended to
\* the session memory, the response
Finalize(q, answer_markdown) ==
    Finished(q, Response("answer", answer_markdown, <<>>, q.included_files,
                         IF is_file_listing_query(q.query) THEN <<>> ELSE q.sources_list))

\* lines 713 to 721 and 783 to 835: the answer model has answered; either
\* its text is the answer, or it asks for tool calls
ChatReturn(r) ==
    \E message \in ChatResponses :
            /\ req[r].pc = "chat"
            /\ IF message.tool_calls # <<>>
               THEN /\ req' = [req EXCEPT ![r] =
                                  [@ EXCEPT !.pc = "tools",
                                            !.tool_calls = message.tool_calls]]
                    /\ UNCHANGED chat_history
               ELSE /\ req' = [req EXCEPT ![r] = Finalize(@, message.content)]
                    /\ chat_history' = update_session_memory(chat_history, req[r].session_id,
                                           req[r].query, message.content, clock, clock)
            /\ UNCHANGED <<clock, active_file_memory, collection, config_collection,
                           uploads, ACTIVE_DB_NAME, arg, res>>

\* lines 722 to 780: every tool call is given its tool message, and the
\* follow-up call is issued with all of them
ResolveTools(r) ==
    /\ req[r].pc = "tools"
    /\ req' = [req EXCEPT ![r] =
                  [@ EXCEPT !.pc = "chat2",
                            !.tool_messages = tool_messages(req[r].tool_calls),
                            !.dispatched = @ + Len(req[r].tool_calls),
                            !.follow_up =
                                Append(@, follow_up_messages(req[r].query,
                                              [tool_calls |-> req[r].tool_calls],
                                              tool_messages(req[r].tool_calls))),
                            !.calls = Append(@, "chat2")]]
    /\ UNCHANGED <<chat_history, clock, active_file_memory, collection,
                   config_collection, uploads, ACTIVE_DB_NAME, arg, res>>

Chat2Fail(r) == Raise(r, "chat2", "chat2")

\* the follow-up with the tool calls of its answer serviced in a further round
Chat2Return_servicing(r) ==
    \E message \in FollowUpResponses :
            /\ req[r].pc = "chat2"
            /\ IF message.tool_calls # <<>> /\ Len(req[r].calls) < 8
               THEN /\ req' = [req EXCEPT ![r] =
                                  [@ EXCEPT !.pc = "tools",
                                            !.tool_calls = message.tool_calls]]
                    /\ UNCHANGED chat_history
               ELSE /\ req' = [req EXCEPT ![r] = Finalize(@, message.content)]
                    /\ chat_history' = update_session_memory(chat_history, req[r].session_id,
                                           req[r].query, message.content, clock, clock)
            /\ UNCHANGED <<clock, active_file_memory, collection, config_collection,
                           uploads, ACTIVE_DB_NAME, arg, res>>

\* lines 781 to 835: the follow-up has answered
Chat2Return(r) ==
    \E message \in FollowUpResponses :
            /\ req[r].pc = "chat2"
            /\ req' = [req EXCEPT ![r] = Finalize(@, message.content)]
            /\ chat_history' = update_session_memory(chat_history, req[r].session_id,
                                   req[r].query, message.content, clock, clock)
            /\ UNCHANGED <<clock, active_file_memory, collection, config_collection,
                           uploads, ACTIVE_DB_NAME, arg, res>>

\* the response, or the error, has been sent to the client
Respond(r) ==
    /\ req[r].pc \in {"done", "error"}
    /\ req' = [req EXCEPT ![r] = IdleReq]
    /\ UNCHANGED <<chat_history, clock, active_file_memory, collection,
                   config_collection, uploads, ACTIVE_DB_NAME, arg, res>>

Next ==
    \/ UploadFile
    \/ \E r \in ReqIds :
           \/ Begin(r)
           \/ ClassifyFail(r)
           \/ ClassifyReturn(r)
           \/ EmbedFail(r)
           \/ VectorQueryFail(r)
           \/ EmbedReturn(r)
           \/ ChatFail(r)
           \/ ChatReturn(r)
           \/ ResolveTools(r)
           \/ Chat2Fail(r)
           \/ Chat2Return(r)
           \/ Respond(r)

Spec == InitIdle /\ [][Next]_vars

\* SpecReturning: the server when every external call returns.  No call
\* raises, and the event loop resumes a request whose answer-model call, tool
\* resolution or follow-up call has completed.
NextReturning ==
    \/ UploadFile
    \/ \E r \in ReqIds :
           \/ Begin(r)
           \/ ClassifyReturn(r)
           \/ EmbedReturn(r)
           \/ ChatReturn(r)
           \/ ResolveTools(r)
           \/ Chat2Return(r)
           \/ Respond(r)

SpecReturning ==
    /\ InitIdle
    /\ [][NextReturning]_vars
    /\ \A r \in ReqIds :
           /\ WF_vars(ChatReturn(r))
           /\ WF_vars(ResolveTools(r))
           /\ WF_vars(Chat2Return(r))

-----------------------------------------------------------------------------
(* Properties of the request handler, checked under Spec                   *)

\* the external calls of ask_question, as recorded in `calls` and `failed`
ExternalCalls == {"classify", "embed", "query", "chat", "chat2"}

\* the request r ends with an exception in this step
C2_Fails(r) == req[r].pc \notin {"idle", "error"} /\ req'[r].pc = "error"

\* the request r returns a response in this step
C2_Returns(r) == req[r].pc \notin {"idle", "done"} /\ req'[r].pc = "done"

\* this step appends to the turn log exactly the turn of request r: its
\* question, then the answer it returns
C2_AppendsTurn(r) ==
    /\ Len(chat_history') = Len(chat_history) + 2
    /\ SubSeq(chat_history', 1, Len(chat_history)) = chat_history
    /\ LET user_msg == chat_history'[Len(chat_history) + 1]
           asst_msg == chat_history'[Len(chat_history) + 2]
       IN  /\ user_msg.session_id = req[r].session_id
           /\ user_msg.role = "user"
           /\ user_msg.content = req[r].query
           /\ asst_msg.session_id = req[r].session_id
           /\ asst_msg.role = "assistant"
           /\ asst_msg.content = req'[r].response.answer

\* a failing external call ends the request with the error of that call,
\* the last call issued, and leaves the turn log as it was
C2_FailureAppendsNothing(r) ==
    C2_Fails(r) => /\ req'[r].response.kind = "error"
                   /\ req'[r].response.failed \in ExternalCalls
                   /\ req'[r].response.failed = req'[r].calls[Len(req'[r].calls)]
                   /\ chat_history' = chat_history

\* the turn log changes only in the step in which a request that awaited the
\* answer model, or its follow-up, returns the answer, and then by that turn
C2_AppendOnlyWithAnswer(r) ==
    chat_history' # chat_history =>
        /\ req[r].pc \in {"chat", "chat2"}
        /\ C2_Returns(r)
        /\ req'[r].response.kind = "answer"
        /\ C2_AppendsTurn(r)

\* C2: a failing external call (classifier, embedding, vector query, answer
\* model, follow-up) ends the request with an error and appends nothing to
\* the turn log.  A request appends at most one turn, in the step that
\* returns the text of the answer model: a request returning such an answer
\* appends exactly its (user, assistant) pair, and a request answered
\* without the answer model (debug, list, delete, no relevant documents)
\* appends nothing.
C2_TurnAppendedOnlyWithAnswer ==
    [][\A r \in ReqIds :
           /\ C2_FailureAppendsNothing(r)
           /\ C2_AppendOnlyWithAnswer(r)
           /\ C2_Returns(r) =>
                  IF req'[r].response.kind = "answer"
                  THEN C2_AppendsTurn(r)
                  ELSE chat_history' = chat_history]_vars

\* the follow-up call of a request has failed: the error names it, and the
\* turn log holds no turn of the request
C2_Witness ==
    \E r \in ReqIds :
        /\ req[r].pc = "error"
        /\ req[r].response.failed = "chat2"
        /\ req[r].calls = <<"classify", "embed", "query", "chat", "chat2">>
        /\ \A i \in DOMAIN chat_history : chat_history[i].session_id # req[r].session_id

\* C2 as stated: failures append nothing, and every request that returns
\* appends its turn exactly once
C2_AsStated ==
    [][\A r \in ReqIds :
           /\ C2_FailureAppendsNothing(r)
           /\ C2_Returns(r) => C2_AppendsTurn(r)]_vars

\* the delete interceptor is reached: no list command, a delete command
C3_DeleteRecognised(q) ==
    /\ ~Contains(q.llm_raw, S_COMMAND_LIST)
    /\ Contains(q.llm_raw, S_COMMAND_DELETE)

\* C3: when the delete command is recognised for a caller whose role is not
\* admin, the request returns the refusal message, and from its arrival to
\* its response nothing is mutated: the vector stores, the uploads directory,
\* the result of list_files(), the turn log and the active-file pointers are
\* what they were.
C3_NonAdminDeleteRefused ==
    [][\A r \in ReqIds :
           /\ (req[r].pc = "idle" /\ req'[r].pc # "idle") =>
                  UNCHANGED <<collection, config_collection, uploads, chat_history,
                              active_file_memory>>
           /\ ( /\ req[r].pc = "classify"
                /\ req'[r].pc # "classify"
                /\ req'[r].llm_raw # None
                /\ C3_DeleteRecognised(req'[r])
                /\ req[r].user.role # "admin" ) =>
                  /\ req'[r].pc = "done"
                  /\ req'[r].response.kind = "refusal"
                  /\ req'[r].response.answer = M_refusal
                  /\ req'[r].response.used_files = <<>>
                  /\ UNCHANGED <<collection, config_collection, uploads, chat_history,
                                 active_file_memory>>
                  /\ list_files(collection') = list_files(collection)]_vars

\* bob, not an administrator, has asked to delete Report.pdf, which is in
\* the corpus and in the uploads directory, and has been refused
C3_Witness ==
    \E r \in ReqIds :
        /\ req[r].pc = "done"
        /\ req[r].user.role = "user"
        /\ req[r].query = Q_delete
        /\ C3_DeleteRecognised(req[r])
        /\ req[r].response.kind = "refusal"
        /\ F_Report \in uploads
        /\ \E i \in DOMAIN collection : collection[i].meta.source = StrVal(F_Report)
        /\ list_files(collection).count = 2

\* the names of the documents that have a chunk in the collection
C4_Corpus == {collection[i].meta.source.v : i \in DOMAIN collection}

\* C4: when the list command is recognised (the output of the classifier, as
\* the rescue heuristic left it, contains COMMAND_LIST), the request returns
\* "The database is empty." for an empty corpus and otherwise a listing that
\* names every document of the corpus once, with no used files and no
\* sources, and the classifier call is the only external call it has issued:
\* no embedding, no vector query, no answer model.
C4_ListCommandListsCorpus ==
    \A r \in ReqIds :
        (req[r].pc # "idle" /\ Contains(req[r].llm_raw, S_COMMAND_LIST)) =>
            /\ req[r].pc = "done"
            /\ req[r].calls = <<"classify">>
            /\ req[r].response.used_files = <<>>
            /\ req[r].response.sources = <<>>
            /\ IF collection = <<>>
               THEN /\ req[r].response.kind = "empty"
                    /\ req[r].response.answer = M_empty
               ELSE /\ req[r].response.kind = "listing"
                    /\ {req[r].response.files[i].filename :
                            i \in DOMAIN req[r].response.files} = C4_Corpus
                    /\ Len(req[r].response.files) = Cardinality(C4_Corpus)

\* "list files" asked of a corpus of two documents: both are listed
C4_Witness ==
    \E r \in ReqIds :
        /\ req[r].pc = "done"
        /\ req[r].query = Q_list
        /\ Contains(req[r].llm_raw, S_COMMAND_LIST)
        /\ req[r].response.kind = "listing"
        /\ Len(req[r].response.files) = 2
        /\ C4_Corpus = {F_Report, F_Gatsby}

\* the number of times a call occurs in the calls of a request
CallCount(calls, call) == Cardinality({i \in DOMAIN calls : calls[i] = call})

\* the steps of the orchestrator of request r: from awaiting the answer
\* model to the response or to the tool calls, from the tool calls to the
\* follow-up, from the follow-up to the response
C12_Steps(r) ==
    /\ (req[r].pc = "chat" /\ req'[r].pc # "chat") =>
           \/ /\ req'[r].pc = "done"
              /\ req'[r].dispatched = 0
              /\ CallCount(req'[r].calls, "chat2") = 0
           \/ /\ req'[r].pc = "tools"
              /\ req'[r].tool_calls # <<>>
              /\ req'[r].calls = req[r].calls
    /\ (req[r].pc = "tools" /\ req'[r].pc # "tools") =>
           /\ req'[r].pc = "chat2"
           /\ req'[r].calls = Append(req[r].calls, "chat2")
           /\ req'[r].dispatched = Len(req[r].tool_calls)
    /\ (req[r].pc = "chat2" /\ req'[r].pc # "chat2") =>
           /\ req'[r].pc = "done"
           /\ req'[r].calls = req[r].calls
           /\ req'[r].dispatched = req[r].dispatched
    /\ req'[r].pc \in {"tools", "chat2"} => req[r].pc \in {"chat", "tools", "chat2"}

C13_DispatchTable == {"list_files", "find_best_file_match"}

\* C13: when the follow-up call of a request is in flight, every tool call
\* of the first response has exactly one tool message, with the id of the
\* call, in the order of the calls; a call with a name outside the dispatch
\* table has the "No handler implemented" message, and the request has not
\* failed; the one follow-up call carries the system message, the question,
\* the assistant message with the tool calls, and all the tool messages.
C13_OneToolMessagePerCall ==
    \A r \in ReqIds :
        (req[r].pc = "tools" => req[r].tool_calls # <<>> /\ req[r].follow_up = <<>>)
        /\ (req[r].pc = "chat2" =>
               /\ req[r].tool_calls # <<>>
               /\ Len(req[r].tool_messages) = Len(req[r].tool_calls)
               /\ \A i \in DOMAIN req[r].tool_calls :
                      /\ req[r].tool_messages[i].role = "tool"
                      /\ req[r].tool_messages[i].tool_call_id = req[r].tool_calls[i].id
                      /\ (req[r].tool_calls[i].name \notin C13_DispatchTable
                             <=> req[r].tool_messages[i].content = "No handler implemented")
               /\ CallCount(req[r].calls, "chat2") = 1
               /\ Len(req[r].follow_up) = 1
               /\ req[r].follow_up[1] =
                      << [role |-> "system"],
                         [role |-> "user", content |-> req[r].query],
                         [role |-> "assistant", tool_calls |-> req[r].tool_calls] >>
                      \o req[r].tool_messages)

\* the first response asked for get_weather, find_best_file_match and
\* list_files: three tool messages with the ids 7, 3, 5, the first one
\* without a handler, are in the follow-up call
C13_Witness ==
    \E r \in ReqIds :
        /\ req[r].pc = "chat2"
        /\ [i \in DOMAIN req[r].tool_calls |-> req[r].tool_calls[i].name]
               = <<"get_weather", "find_best_file_match", "list_files">>
        /\ [i \in DOMAIN req[r].tool_messages |-> req[r].tool_messages[i].tool_call_id]
               = <<7, 3, 5>>
        /\ req[r].tool_messages[1].content = "No handler implemented"
        /\ Len(req[r].follow_up[1]) = 6

-----------------------------------------------------------------------------
(* C16: no chunk retrieved                                                 *)

\* the metadata the claim expects of the chunk made up for an image-only
\* page: the target file and the first page the user named
C16_IsPlaceholderFor(chunk, matched_file, target_pages) ==
    /\ chunk.meta.source = StrVal(matched_file)
    /\ chunk.meta.file_id = StrVal(to_file_id(matched_file))
    /\ chunk.meta.page = IntVal(target_pages[1])

\* the states of a request after a vector query that returned no chunk
C16_NoChunkStates ==
    \A r \in ReqIds :
        /\ (req[r].pc \in {"done", "error"} /\ req[r].response.kind = "no_documents" =>
               /\ req[r].pc = "done"
               /\ req[r].response.answer = M_no_documents
               /\ req[r].n_retrieved = 0
               /\ CallCount(req[r].calls, "chat") = 0
               /\ CallCount(req[r].calls, "chat2") = 0
               /\ req[r].calls[Len(req[r].calls)] = "query")
        /\ (req[r].pc = "chat" /\ req[r].n_retrieved = 0 =>
               /\ req[r].page_images # <<>>
               /\ req[r].matched_file # None
               /\ \A i \in DOMAIN req[r].page_images :
                      req[r].page_images[i].page \in Range(req[r].target_pages)
               /\ Len(req[r].vision_fallback) = 1
               /\ C16_IsPlaceholderFor(req[r].vision_fallback[1], req[r].matched_file,
                                       req[r].target_pages)
               /\ Len(req[r].included_files) = 1
               /\ req[r].included_files[1].filename = StrVal(req[r].matched_file))
        /\ (req[r].pc = "chat" /\ req[r].n_retrieved > 0 =>
               req[r].vision_fallback = <<>>)

\* C16: a request whose vector query returned no chunk and for which no
\* page image was rendered ends with the answer 'No relevant documents
\* found.', with no error, no call of the answer model and no turn stored;
\* with no chunk but an image of a requested page, the answer model is
\* called with exactly one made-up chunk, of the target file; nothing is
\* made up when chunks were retrieved.
C16_NoChunkOutcome ==
    /\ []C16_NoChunkStates
    /\ [][\A r \in ReqIds :
              req'[r].pc = "done" /\ req'[r].response.kind = "no_documents"
                  => chat_history' = chat_history]_vars

\* no chunk of pages 3, 4 and 12 of Report.pdf is stored; page 4 was
\* rendered, the rendering of page 3 raised: the answer model is called
\* with the placeholder of page 3 of Report.pdf
C16_Witness ==
    \E r \in ReqIds :
        /\ req[r].pc = "chat"
        /\ req[r].n_retrieved = 0
        /\ req[r].target_pages = <<3, 4, 12>>
        /\ req[r].matched_file = F_Report
        /\ req[r].render_failed = {3}
        /\ req[r].vision_fallback[1].meta.page = IntVal(3)

-----------------------------------------------------------------------------
(* C17: a page that cannot be rendered                                     *)

\* the images the claim expects: the four images of every target page of
\* the stored file that is in range and whose rendering did not raise, in
\* the order of the target pages
RECURSIVE C17_ExpectedImages(_, _, _, _)
C17_ExpectedImages(target_pages, matched_file, upl, failed) ==
    IF target_pages = <<>> THEN <<>>
    ELSE LET p == Head(target_pages)
             rendered == /\ matched_file # None
                         /\ matched_file \in upl
                         /\ p \notin failed
                         /\ p >= 1
                         /\ p <= PhysicalPages(matched_file)
         IN  (IF rendered
              THEN [i \in 1..4 |-> [page |-> p, slice_index |-> i - 1]]
              ELSE <<>>)
                 \o C17_ExpectedImages(Tail(target_pages), matched_file, upl, failed)

\* C17: the answer model is called with the images of exactly the target
\* pages that could be rendered, whatever pages could not; no request is
\* ended with an error by the rendering, and a request ends with 'No
\* relevant documents found.' only if it retrieved no chunk and none of its
\* target pages could be rendered.
C17_RenderFailureContained ==
    [][\A r \in ReqIds :
          /\ (req'[r].pc = "chat" =>
                 req'[r].page_images =
                     C17_ExpectedImages(req'[r].target_pages, req'[r].matched_file,
                                        uploads', req'[r].render_failed))
          /\ (req[r].pc = "embed" /\ req'[r].pc \in {"done", "error"} =>
                 \/ req'[r].response.kind = "error"
                        /\ req'[r].calls[Len(req'[r].calls)] \in {"embed", "query"}
                 \/ /\ req'[r].response.kind = "no_documents"
                    /\ req'[r].n_retrieved = 0
                    /\ C17_ExpectedImages(req[r].target_pages, req[r].matched_file,
                                          uploads, req'[r].render_failed) = <<>>)
      ]_vars

\* the rendering of page 3 raised and page 12 is out of range: the answer
\* model is called with the four images of page 4
C17_Witness ==
    \E r \in ReqIds :
        /\ req[r].pc = "chat"
        /\ req[r].target_pages = <<3, 4, 12>>
        /\ req[r].render_failed = {3}
        /\ Len(req[r].page_images) = 4
        /\ \A i \in DOMAIN req[r].page_images : req[r].page_images[i].page = 4

-----------------------------------------------------------------------------
(* C18: the debug and delete commands                                      *)

C18_delete_prefix == <<"d","e","l","e","t","e"," ">>

\* the response kinds of the delete command
C18_DeleteKinds == {"refusal", "not_found", "deleted", "delete_error"}

\* C18: a query that starts with 'debug' is answered with no external call
\* at all; the delete command is taken from the output of the classifier,
\* not from the query: a request answers as a delete command exactly when the
\* classification call has returned an output with COMMAND_DELETE: and
\* without COMMAND_LIST, and it then answers after that one call, with no
\* embedding and no call of the answer model.
C18_CommandsShortCircuit ==
    \A r \in ReqIds :
        /\ (req[r].pc # "idle" /\ StartsWith(Lower(Strip(req[r].query)), <<"d","e","b","u","g">>) =>
               /\ req[r].pc = "done"
               /\ req[r].response.kind = "debug"
               /\ req[r].calls = <<>>)
        /\ (req[r].pc \in {"done", "error"} /\ req[r].response.kind \in C18_DeleteKinds =>
               /\ req[r].pc = "done"
               /\ req[r].calls = <<"classify">>
               /\ C3_DeleteRecognised(req[r]))
        /\ (req[r].pc \notin {"idle", "classify"} /\ req[r].llm_raw # None
               /\ C3_DeleteRecognised(req[r]) =>
               /\ req[r].pc = "done"
               /\ req[r].response.kind \in C18_DeleteKinds)

\* C18 as stated: a request whose query starts with 'debug' or 'delete ' has
\* issued no classification call and no call of the answer model
C18_AsStated ==
    \A r \in ReqIds :
        (req[r].pc # "idle"
            /\ (StartsWith(req[r].query, <<"d","e","b","u","g">>)
                   \/ StartsWith(req[r].query, C18_delete_prefix))) =>
            /\ CallCount(req[r].calls, "classify") = 0
            /\ CallCount(req[r].calls, "chat") = 0

\* 'delete Report.pdf' of the administrator has deleted the file, after the
\* classification call and no other
C18_Witness ==
    \E r \in ReqIds :
        /\ req[r].pc = "done"
        /\ StartsWith(req[r].query, C18_delete_prefix)
        /\ req[r].response.kind = "deleted"
        /\ req[r].calls = <<"classify">>

-----------------------------------------------------------------------------
(* C20: the page the visual augmenter adds                                 *)

\* the source of the chosen candidate, None when its metadata has none
C20_TopSource == LET top == arg.chunks[res.top + 1].meta
                 IN  IF top.source.t = "none" THEN None ELSE top.source.v

\* the chosen candidate has a page in its metadata
C20_TopHasPage == arg.chunks[res.top + 1].meta.page.t # "none"

\* C20: with explicit pages, or with no chunk retrieved, the augmenter
\* leaves the target pages and the target file as they were.  Otherwise it
\* adds at most one page: the page of the chosen candidate, exactly when
\* that candidate has a page and its source is the resolved file or no file
\* was resolved; a resolved file is never replaced, and with no file
\* resolved the source of a chosen candidate that has a page becomes the
\* target file.
C20_AugmenterAddsTopPage ==
    res.kind = "augmented" =>
        LET before == [target_pages |-> arg.target_pages, matched_file |-> arg.matched_file]
            after  == res.augmented
        IN  /\ (arg.target_pages # <<>> \/ arg.chunks = <<>> => after = before)
            /\ (arg.target_pages = <<>> /\ arg.chunks # <<>> =>
                   /\ Len(after.target_pages) <= 1
                   /\ after.target_pages # <<>> <=>
                          /\ C20_TopHasPage
                          /\ (arg.matched_file = None \/ arg.matched_file = C20_TopSource)
                   /\ (after.target_pages # <<>> =>
                          /\ arg.chunks[res.top + 1].meta.page = IntVal(after.target_pages[1])
                          /\ after.matched_file = C20_TopSource)
                   /\ (arg.matched_file # None => after.matched_file = arg.matched_file)
                   /\ (arg.matched_file = None =>
                          after.matched_file = IF C20_TopHasPage THEN C20_TopSource ELSE None))

\* no page named and no file resolved; of the chunks retrieved the third,
\* page 9 of Report.pdf, has a visual keyword: page 9 is added and
\* Report.pdf becomes the target file
C20_Witness ==
    /\ res.kind = "augmented"
    /\ arg.target_pages = <<>>
    /\ arg.matched_file = None
    /\ Len(arg.chunks) >= 3
    /\ res.top = 2
    /\ res.augmented = [target_pages |-> <<9>>, matched_file |-> F_Report]

-----------------------------------------------------------------------------
(* SpecPointer: the active-file pointers under the questions of the users. *)
(* Each step is one question taken up to line 280: the classifier answers, *)
(* the commands return, the scope is resolved and the pointer remembered.  *)

\* what the classifier answers: the outputs of the scope resolver and the
\* two commands
PointerLlmOutputs == ScopeLlmOutputs \cup {S_COMMAND_LIST, S_delete_report}

\* a question of a user arrives and the classifier has answered
PointerAsk ==
    \E u \in Users, q \in ScopeQueries, l \in PointerLlmOutputs, fs \in ScopeCorpora :
        /\ arg = NoArg \/ res # NoRes
        /\ arg' = [kind |-> "pointer", user |-> u, query |-> q.text, llm_raw |-> l,
                   available_files |-> fs]
        /\ res' = NoRes
        /\ UNCHANGED storeVars

\* lines 169 to 280 with llm_raw as the rescue heuristic left it and the
\* scope decided
PointerScoped(session_id, llm_raw, decision) ==
    IF Contains(llm_raw, S_COMMAND_LIST) \/ Contains(llm_raw, S_COMMAND_DELETE)
    THEN /\ res' = [kind |-> "command", session_id |-> session_id,
                    before |-> active_file_memory]
         /\ UNCHANGED active_file_memory
    ELSE /\ active_file_memory' =
                IF decision.matched_file # None
                THEN set_last_active_file(active_file_memory, session_id,
                                          decision.matched_file)
                ELSE active_file_memory
         /\ res' = [kind |-> "scoped", session_id |-> session_id,
                    before |-> active_file_memory,
                    matched_files |-> decision.matched_files]

\* lines 56 to 280 of the question, as far as active_file_memory goes
PointerResolve ==
    /\ arg # NoArg
    /\ res = NoRes
    /\ PointerScoped(SessionId(arg.user.username, ACTIVE_DB_NAME),
                     rescue(arg.query, arg.llm_raw, arg.available_files),
                     scope_decision(arg.query,
                                    rescue(arg.query, arg.llm_raw, arg.available_files),
                                    arg.available_files,
                                    get_last_active_file(active_file_memory,
                                        SessionId(arg.user.username, ACTIVE_DB_NAME))))
    /\ UNCHANGED <<chat_history, clock, collection, config_collection,
                   uploads, ACTIVE_DB_NAME, req, arg>>

NextPointer == PointerAsk \/ PointerResolve

SpecPointer == InitIdle /\ [][NextPointer]_vars

-----------------------------------------------------------------------------
(* C19: when the active-file pointer is written                            *)

\* the pointers `before` with that of the session set to the file
C19_PointerSet(before, session_id, filename) ==
    /\ DOMAIN active_file_memory = DOMAIN before \cup {session_id}
    /\ active_file_memory[session_id] = filename
    /\ \A s \in DOMAIN before \ {session_id} : active_file_memory[s] = before[s]

\* C19: a request that resolves its scope to one file or to several sets
\* the pointer of its session to the first file of the scope and leaves the
\* pointers of the other sessions alone; a request that resolves no file, or
\* that ends as a list or delete command, leaves every pointer as it was.
C19_PointerFollowsFirstFile ==
    /\ (res.kind = "command" => active_file_memory = res.before)
    /\ (res.kind = "scoped" =>
           IF res.matched_files # <<>>
           THEN C19_PointerSet(res.before, res.session_id, res.matched_files[1])
           ELSE active_file_memory = res.before)

\* C19 as stated: the pointer is written exactly when the scope is one file
C19_AsStated ==
    res.kind = "scoped" =>
        IF Len(res.matched_files) = 1
        THEN C19_PointerSet(res.before, res.session_id, res.matched_files[1])
        ELSE active_file_memory = res.before

\* a question over the two files of the corpus moved the pointer of its
\* session from Report.pdf to the first file of the scope
C19_Witness ==
    /\ res.kind = "scoped"
    /\ res.matched_files = <<F_Gatsby, F_Report>>
    /\ get_last_active_file(res.before, res.session_id) = F_Report
    /\ get_last_active_file(active_file_memory, res.session_id) = F_Gatsby

-----------------------------------------------------------------------------
(* C24: the external calls of a request and their order                    *)

C24_CallOrder == <<"classify", "embed", "query", "chat", "chat2">>

\* C24: the calls of a request are a prefix of classification, embedding,
\* vector query, answer model, follow-up: at most one classification and
\* one vector query, in that order; a request that has reached the answer
\* model has made exactly one of each, and the filter of its query is the
\* one built from the pages of the question, whatever page the augmenter
\* added after the query; a request ended by a debug, list or delete
\* command has made no vector query.
C24_OneClassificationOneQuery ==
    \A r \in ReqIds :
        req[r].pc # "idle" =>
            /\ Len(req[r].calls) <= Len(C24_CallOrder)
            /\ req[r].calls = SubSeq(C24_CallOrder, 1, Len(req[r].calls))
            /\ (req[r].pc \in {"chat", "tools", "chat2"} =>
                   /\ CallCount(req[r].calls, "classify") = 1
                   /\ CallCount(req[r].calls, "query") = 1
                   /\ req[r].filters = build_filters(req[r].query, req[r].matched_files,
                                                     extract_target_pages(req[r].query)))
            /\ (req[r].pc = "done" /\ req[r].response.kind \in
                      {"debug", "empty", "listing"} \cup C18_DeleteKinds =>
                   CallCount(req[r].calls, "query") = 0)

\* the question about Gatsby named no page; the augmenter added a page
\* after the query, and the filter of the query has no page in it
C24_Witness ==
    \E r \in ReqIds :
        /\ req[r].pc = "chat"
        /\ extract_target_pages(req[r].query) = <<>>
        /\ req[r].target_pages # <<>>
        /\ req[r].calls = <<"classify", "embed", "query", "chat">>

-----------------------------------------------------------------------------
(* C25: the effect of a deletion that is reported as done                  *)

\* C25: when the delete command of an administrator is answered with the
\* deletion done, the file is no longer listed by list_files(), no chunk of
\* it is left in the collection that retrieval reads, and list_files()
\* counts one file less than before the request.
C25_DeleteTakesEffect ==
    [][\A r \in ReqIds :
           ( /\ req[r].pc = "classify"
             /\ req'[r].pc = "done"
             /\ req'[r].response.kind = "deleted" ) =>
               LET target == delete_target(req'[r].llm_raw)
               IN  /\ \A i \in DOMAIN list_files(collection').files :
                          list_files(collection').files[i].filename # target
                   /\ \A i \in DOMAIN collection' :
                          collection'[i].meta.source # StrVal(target)
                   /\ list_files(collection').count = list_files(collection).count - 1]_vars

-----------------------------------------------------------------------------
(* C26: the active-file pointer of a request that produces no answer       *)

\* C26: when the embedding call, the vector-store query or an answer-model
\* call fails, or the request ends with 'No relevant documents found.', the
\* pointer of the session is what it was when the request began.
C26_FailureLeavesPointer ==
    \A r \in ReqIds :
        ( \/ /\ req[r].pc = "error"
              /\ req[r].response.failed \in {"embed", "query", "chat", "chat2"}
           \/ /\ req[r].pc = "done"
              /\ req[r].response.kind = "no_documents" ) =>
            get_last_active_file(active_file_memory, req[r].session_id) = req[r].active_file

-----------------------------------------------------------------------------
(* C28: the user message of the follow-up call                             *)

\* the retrieved context of a request awaiting the answer model, by the
\* headers of the files grouped in it
C28_Context(q) ==
    Join([g \in DOMAIN q.included_files |->
             <<"-","-","-"," ","F","I","L","E",":"," ">> \o q.included_files[g].filename.v],
         <<"\n">>)

\* C28: the user message of the follow-up call has the content of the user
\* message of round 1: the prior conversation, the retrieved context and
\* the question, followed by the rendered page images.  A content that is a
\* text stands for one text part.
C28_FollowUpSameUserContent ==
    \A r \in ReqIds :
        req[r].pc = "chat2" =>
            LET call == req[r].follow_up[Len(req[r].follow_up)]
            IN  << [type |-> "text", text |-> call[2].content,
                    page |-> 0, slice_index |-> 0] >>
                    = user_content(user_prompt(req[r].prior_context, C28_Context(req[r]),
                                               req[r].query),
                                   req[r].page_images)

-----------------------------------------------------------------------------
(* SpecSessions: the two session stores across the databases of the        *)
(* installation.  Questions of the users set the active-file pointer of    *)
(* their session and store turns, the administrator clears the logs of the *)
(* active database, and the active database is switched.                   *)

\* turns stored in the specification of the sessions
MaxSessTurns == 2

\* databases made with create_database: names of ^[a-zA-Z0-9_]{3,20}$
DBNames == { DEFAULT_DB, <<"l","a","w">>, <<"l","_","w">> }

sessVars == <<collection, config_collection, uploads, req, arg, clock>>

\* what ask_question does to the two stores: set_last_active_file when the
\* scope resolved to a file, update_session_memory when an answer was made
SessAsk ==
    \E u \in Users, file \in {None, F_Report, F_Gatsby}, stored \in BOOLEAN :
        LET sid == SessionId(u.username, ACTIVE_DB_NAME)
            k   == (Len(chat_history) \div 2) + 1
        IN  /\ stored => k <= MaxSessTurns
            /\ active_file_memory' =
                   IF file # None
                   THEN set_last_active_file(active_file_memory, sid, file)
                   ELSE active_file_memory
            /\ chat_history' =
                   IF stored
                   THEN update_session_memory(chat_history, sid, TurnUserText(k),
                                              TurnAssistantText(k), clock, clock)
                   ELSE chat_history
            /\ res' = [kind |-> "asked"]
            /\ UNCHANGED ACTIVE_DB_NAME
            /\ UNCHANGED sessVars

\* DELETE /admin/logs, behind require_admin
ClearLogs ==
    \E u \in Users :
        /\ u.role = "admin"
        /\ chat_history' = clear_logs(chat_history, ACTIVE_DB_NAME)
        /\ res' = [kind |-> "cleared", before |-> chat_history]
        /\ UNCHANGED <<active_file_memory, ACTIVE_DB_NAME>>
        /\ UNCHANGED sessVars

\* ACTIVE_DB_NAME = name; the corpora of this specification hold no
\* documents, so the collection opened is as empty as the one left
load_database(name) ==
    /\ ACTIVE_DB_NAME' = name
    /\ collection' = <<>>

\* the operation that changes the active corpus: load_database(name), then
\* clear_all_active_files()
SwitchDatabase ==
    \E name \in DBNames :
        /\ load_database(name)
        /\ active_file_memory' = clear_all_active_files(active_file_memory)
        /\ res' = [kind |-> "switched", from |-> ACTIVE_DB_NAME,
                    pointers |-> DOMAIN active_file_memory]
        /\ UNCHANGED <<chat_history, config_collection, uploads, req, arg, clock>>

NextSessions == SessAsk \/ ClearLogs \/ SwitchDatabase

SpecSessions == InitIdle /\ [][NextSessions]_vars

-----------------------------------------------------------------------------
(* C14: the turn log                                                       *)

IsPrefix(s, t) == Len(s) <= Len(t) /\ SubSeq(t, 1, Len(s)) = s

\* the step stores one turn: a user row and an assistant row of one session
\* at the end of the log, the rows before them as they were
C14_AppendsOneTurn ==
    /\ Len(chat_history') = Len(chat_history) + 2
    /\ IsPrefix(chat_history, chat_history')
    /\ chat_history'[Len(chat_history) + 1].role = "user"
    /\ chat_history'[Len(chat_history) + 2].role = "assistant"
    /\ chat_history'[Len(chat_history) + 1].session_id
           = chat_history'[Len(chat_history) + 2].session_id

\* the step deletes the rows whose session id is LIKE '%-<active database>'
\* and leaves every other row as it was, in its place
C14_ClearsActiveDatabase ==
    /\ ACTIVE_DB_NAME' = ACTIVE_DB_NAME
    /\ chat_history' = SelectSeq(chat_history,
           LAMBDA m : ~Like(<<"%", "-">> \o ACTIVE_DB_NAME, m.session_id))

\* C14: no step modifies a stored turn; a step leaves the log as it was,
\* appends one turn of one session at its end, or is the administrator's
\* clearing of the logs, which removes exactly the rows whose session id is
\* LIKE '%-<active database>'.
C14_LogGrowsOrIsCleared ==
    [][chat_history' = chat_history \/ C14_AppendsOneTurn \/ C14_ClearsActiveDatabase]_vars

\* C14 as stated: no operation removes a stored turn, the log only grows
C14_AsStated == [][IsPrefix(chat_history, chat_history')]_vars

\* the administrator cleared the logs: rows of the active database went,
\* the rows of another database stayed
C14_Witness ==
    /\ res.kind = "cleared"
    /\ chat_history # <<>>
    /\ Len(chat_history) < Len(res.before)
    /\ \E i \in DOMAIN res.before :
           res.before[i].session_id = SessionId(<<"b","o","b">>, ACTIVE_DB_NAME)

-----------------------------------------------------------------------------
(* C15: the active-file pointers at a change of the corpus                 *)

-----------------------------------------------------------------------------
(* C27: the files of a scope decision and the corpus listing               *)

\* C27: every file of a scope decision, the active-file fallback included,
\* is a file of the corpus listing of the request.
C27_ScopeWithinCorpus ==
    res.kind = "scoped" =>
        \A i \in DOMAIN res.matched_files :
            \E j \in DOMAIN arg.available_files :
                arg.available_files[j] = res.matched_files[i]

-----------------------------------------------------------------------------
(* SpecHint: one question asked in two sessions that differ in their       *)
(* active file only: same query, same answer of the classifier, same       *)
(* corpus, same stored conversation.                                       *)

\* what get_session_context returns: nothing, a turn that names a file, a
\* turn that names none
HintPriorContexts ==
    { None,
      <<"U","s","e","r",":"," ","s","u","m"," ","R","e","p","o","r","t",".","p","d","f","\n",
        "A","s","s","i","s","t","a","n","t",":"," ","o","k">>,
      <<"U","s","e","r",":"," ","h","i","\n",
        "A","s","s","i","s","t","a","n","t",":"," ","o","k">> }

\* the question arrives in both sessions and the classifier has answered
HintAsk ==
    \E q \in ScopeQueries, l \in ScopeLlmOutputs, fs \in ScopeCorpora,
       a1 \in ScopeActiveFiles, a2 \in ScopeActiveFiles, pc \in HintPriorContexts :
        /\ a1 # a2
        /\ arg = NoArg
        /\ arg' = [kind |-> "hint", query |-> q.text, llm_raw |-> l,
                   available_files |-> fs, active_file |-> <<a1, a2>>,
                   prior_context |-> pc]
        /\ res' = NoRes
        /\ UNCHANGED storeVars

\* lines 58 to 75 and 134 to 325 in each of the two sessions
HintOutcome(llm_raw) ==
    [ valid |-> validate_tokens(split_tokens(llm_raw), arg.available_files),
      decision |-> [i \in 1..2 |->
                       scope_decision(arg.query, llm_raw, arg.available_files,
                                      arg.active_file[i])],
      prior_context |-> [i \in 1..2 |->
                            filter_prior_context(arg.prior_context, arg.active_file[i])] ]

HintResolve ==
    /\ arg # NoArg
    /\ res = NoRes
    /\ res' = [kind |-> "hint",
               outcome |-> HintOutcome(rescue(arg.query, arg.llm_raw, arg.available_files))]
    /\ UNCHANGED arg
    /\ UNCHANGED storeVars

NextHint == HintAsk \/ HintResolve

SpecHint == InitIdle /\ [][NextHint]_vars

-----------------------------------------------------------------------------
(* C21: the active file as a hint                                          *)

\* the lines of the stored conversation that reach the models in a session
\* with the active file a: all of them without an active file, else those
\* that mention no ".pdf" or mention a
C21_LinesKept(prior_context, a) ==
    IF a = None THEN SplitLines(prior_context)
    ELSE SelectSeq(SplitLines(prior_context),
                   LAMBDA line : \/ ~Contains(Lower(line), <<".","p","d","f">>)
                                 \/ Contains(Lower(line), Lower(a)))

\* C21: when the classifier or the rescue heuristic resolves a valid
\* filename, the scope decision and the retrieval filter of the two sessions
\* are the same; the prior conversation given to the models is, in each
\* session, the stored conversation without the lines that mention ".pdf"
\* and not the active file of that session.
C21_HintNotFilter ==
    res.kind = "hint" =>
        /\ (res.outcome.valid # <<>> =>
               /\ res.outcome.decision[1] = res.outcome.decision[2]
               /\ res.outcome.decision[1].matched_files = res.outcome.valid)
        /\ \A i \in 1..2 :
               SplitLines(res.outcome.prior_context[i])
                   = C21_LinesKept(arg.prior_context, arg.active_file[i])

\* C21 as stated: with a valid filename resolved, the prior conversation
\* given to the models is the same in the two sessions as well
C21_AsStated ==
    (res.kind = "hint" /\ res.outcome.valid # <<>>) =>
        /\ res.outcome.decision[1] = res.outcome.decision[2]
        /\ res.outcome.prior_context[1] = res.outcome.prior_context[2]

\* the classifier named Report.pdf; one session has no active file, the
\* other The-Great-Gatsby.pdf: same scope, but the second session lost the
\* line of its conversation that names Report.pdf
C21_Witness ==
    /\ res.kind = "hint"
    /\ res.outcome.valid = <<F_Report>>
    /\ arg.active_file = <<None, F_Gatsby>>
    /\ res.outcome.decision[1] = res.outcome.decision[2]
    /\ Len(SplitLines(res.outcome.prior_context[1])) = 2
    /\ Len(SplitLines(res.outcome.prior_context[2])) = 1

-----------------------------------------------------------------------------
(* SpecSet: the scope decision when the classifier names a file more than  *)
(* once.                                                                   *)

\* what the classifier answers: the outputs of the scope resolver, and
\* outputs with two tokens for one file
SetLlmOutputs ==
    ScopeLlmOutputs \cup
    { F_Report \o <<",", " ">> \o F_Report,
      F_Report \o <<",", " ">> \o Lower(F_Report),
      <<"G","a","t","s","b","y",".","p","d","f">> \o <<",", " ">> \o F_Gatsby }

\* a question arrives and the classifier has answered
SetAsk ==
    \E q \in ScopeQueries, l \in SetLlmOutputs, fs \in ScopeCorpora, a \in {None, F_Report} :
        /\ arg = NoArg
        /\ arg' = [kind |-> "set", query |-> q.text, llm_raw |-> l,
                   available_files |-> fs, active_file |-> a]
        /\ res' = NoRes
        /\ UNCHANGED storeVars

\* lines 134 to 325
SetDecision(llm_raw) ==
    [kind |-> "set",
     decision |-> scope_decision(arg.query, llm_raw, arg.available_files, arg.active_file)]

SetResolve ==
    /\ arg # NoArg
    /\ res = NoRes
    /\ res' = SetDecision(rescue(arg.query, arg.llm_raw, arg.available_files))
    /\ UNCHANGED arg
    /\ UNCHANGED storeVars

NextSet == SetAsk \/ SetResolve

SpecSet == InitIdle /\ [][NextSet]_vars

-----------------------------------------------------------------------------
(* C22: the target files as an ordered set                                 *)

\* C22: the target files of a scope decision name no file twice, and
\* compare mode is entered only with two distinct files.
C22_TargetFilesAreASet ==
    res.kind = "set" =>
        /\ \A i, j \in DOMAIN res.decision.matched_files :
               i # j => res.decision.matched_files[i] # res.decision.matched_files[j]
        /\ (res.decision.multi_file_mode =>
               Cardinality(Range(res.decision.matched_files)) >= 2)

-----------------------------------------------------------------------------
(* SpecFileId: a file is uploaded to an empty corpus and its file_id is    *)
(* computed again when a question names it.                                *)

\* letters of the name of the file before ".pdf"
MaxStemLen == 3

StemLetters == {"a", "B", " ", "-"}

InitFileId ==
    /\ InitStores
    /\ arg = [kind |-> "file_id", stem |-> <<>>]
    /\ res = NoRes

\* one more letter of the name
FileIdLetter ==
    \E c \in StemLetters :
        /\ Len(arg.stem) < MaxStemLen
        /\ arg' = [arg EXCEPT !.stem = Append(@, c)]
        /\ res' = NoRes
        /\ UNCHANGED storeVars

\* the file_id of the chunks stored by upload_file, the file_id of the
\* entry of list_files(), and to_file_id of the filename
file_ids_of(filename, coll) ==
    [kind |-> "file_id", filename |-> filename,
     stored |-> {coll[i].meta.file_id.v : i \in DOMAIN coll},
     listed |-> {list_files(coll).files[i].file_id : i \in DOMAIN list_files(coll).files},
     query_time |-> to_file_id(filename)]

\* POST /upload of the file, one page of text, then to_file_id of its name
FileIdUpload ==
    /\ arg.stem # <<>>
    /\ res = NoRes
    /\ res' = file_ids_of(arg.stem \o <<".","p","d","f">>,
                          upload_file(<<>>, [filename |-> arg.stem \o <<".","p","d","f">>,
                                             pages |-> <<T_text>>]))
    /\ UNCHANGED arg
    /\ UNCHANGED storeVars

NextFileId == FileIdLetter \/ FileIdUpload

SpecFileId == InitFileId /\ [][NextFileId]_vars

-----------------------------------------------------------------------------
(* C23: file_id as the join key                                            *)

\* C23: the file_id computed from the filename of an uploaded document at
\* query time is the file_id stored on its chunks and reported by
\* list_files().
C23_FileIdIsJoinKey ==
    res.kind = "file_id" =>
        /\ res.stored = {res.query_time}
        /\ res.listed = {res.query_time}

-----------------------------------------------------------------------------
(* SpecRace: two questions in flight at once.  The handler is a coroutine:  *)
(* between its start and the answer of the classifier the other request can *)
(* run.  Each request is taken up to line 280, the corpus being fixed.      *)

RaceIds == {1, 2}

RaceCorpus == <<F_Gatsby, F_Report>>

\* both requests are of one user, hence of one session
RaceUser == CHOOSE u \in Users : u.role = "user"

\* the questions: pages named, a file named, neither
RaceQueries ==
    { <<"w","h","a","t"," ","i","s"," ","o","n"," ","p","a","g","e"," ","8">>,
      <<"T","e","l","l"," ","m","e"," ","a","b","o","u","t"," ","G","a","t","s","b","y">>,
      <<"w","h","a","t"," ","i","s"," ","t","h","e"," ","g","r","e","a","t"," ","s","t","o","r","y"," ","a","b","o","u","t">> }

\* what the classifier answers
RaceLlmOutputs ==
    { <<"N","o","n","e">>,
      <<"R","e","p","o","r","t",".","p","d","f">>,
      <<"G","a","t","s","b","y",".","p","d","f">> }

InitRace ==
    /\ chat_history = <<>>
    /\ clock = 0
    /\ active_file_memory = EmptyMemory
    /\ collection = <<>>
    /\ config_collection = <<>>
    /\ uploads = {}
    /\ ACTIVE_DB_NAME = DEFAULT_DB
    /\ req = [r \in RaceIds |-> IdleReq]
    /\ arg = NoArg
    /\ res = NoRes

\* lines 49 to 129: the question arrives; active_file is read from the
\* session memory (65, 103) and the classifier is awaited
RaceBegin(r) ==
    \E query \in RaceQueries :
        /\ req[r].pc = "idle"
        /\ req' = [req EXCEPT ![r] =
                      [pc |-> "classify", query |-> query,
                       session_id |-> SessionId(RaceUser.username, ACTIVE_DB_NAME),
                       active_file |->
                           get_last_active_file(active_file_memory,
                               SessionId(RaceUser.username, ACTIVE_DB_NAME))]]
        /\ UNCHANGED <<chat_history, clock, active_file_memory, collection,
                       config_collection, uploads, ACTIVE_DB_NAME, arg, res>>

\* lines 217 to 280 with the scope decided
RaceScoped(r, decision) ==
    /\ req' = [req EXCEPT ![r] =
                  [pc |-> "scoped", query |-> req[r].query,
                   session_id |-> req[r].session_id,
                   active_file |-> req[r].active_file,
                   matched_files |-> decision.matched_files]]
    /\ active_file_memory' =
           IF decision.matched_file # None
           THEN set_last_active_file(active_file_memory, req[r].session_id,
                                     decision.matched_file)
           ELSE active_file_memory

\* lines 130 to 280: the classifier has answered; the scope is decided
\* with the active_file read before the await
RaceClassified(r) ==
    \E l \in RaceLlmOutputs :
        /\ req[r].pc = "classify"
        /\ RaceScoped(r, scope_decision(req[r].query,
                                        rescue(req[r].query, l, RaceCorpus),
                                        RaceCorpus, req[r].active_file))
        /\ arg' = [kind |-> "race", llm_raw |-> rescue(req[r].query, l, RaceCorpus)]
        /\ UNCHANGED <<chat_history, clock, collection, config_collection,
                       uploads, ACTIVE_DB_NAME, res>>

\* the rest of the request leaves the pointers alone
RaceRespond(r) ==
    /\ req[r].pc = "scoped"
    /\ req' = [req EXCEPT ![r] = IdleReq]
    /\ UNCHANGED <<chat_history, clock, active_file_memory, collection,
                   config_collection, uploads, ACTIVE_DB_NAME, arg, res>>

NextRace == \E r \in RaceIds : RaceBegin(r) \/ RaceClassified(r) \/ RaceRespond(r)

SpecRace == InitRace /\ [][NextRace]_vars

-----------------------------------------------------------------------------
(* C29: the active file of a request that runs beside another               *)

\* C29: the scope a request decides is the scope decided with the pointer
\* of its session as it is when the classifier has answered.
C29_FallbackUsesCurrentPointer ==
    [][\A r \in RaceIds :
           (req[r].pc = "classify" /\ req'[r].pc = "scoped") =>
               req'[r].matched_files =
                   scope_decision(req[r].query, arg'.llm_raw, RaceCorpus,
                                  get_last_active_file(active_file_memory,
                                                       req[r].session_id)).matched_files]_vars

-----------------------------------------------------------------------------
(* SpecPlaces: the places of the documents under uploads and deletions.    *)
(* Files are uploaded, the administrator resets the collection (each       *)
(* deletion of the reset may fail and leave its file), and files are       *)
(* deleted through the delete route.  res records the operation.           *)

PlaceFiles ==
    { [filename |-> <<"a",".","p","d","f">>, pages |-> <<T_text, T_figure>>],
      [filename |-> <<"A",".","p","d","f">>, pages |-> <<T_text>>],
      [filename |-> <<"b",".","p","d","f">>, pages |-> <<T_text>>],
      [filename |-> <<"c"," ","d",".","p","d","f">>, pages |-> <<None, T_text>>] }

\* upload.py 111 to 115: the normalized file_id is already stored
is_duplicate_upload(coll, file) ==
    \E i \in DOMAIN coll : /\ Truthy(coll[i].meta.file_id)
                            /\ coll[i].meta.file_id.v = upload_file_id(file.filename)

\* POST /upload of one file
PlacesUpload ==
    \E f \in PlaceFiles :
        /\ uploads' = uploads \cup {f.filename}
        /\ collection' = upload_file(collection, f)
        /\ res' = [kind |-> IF is_duplicate_upload(collection, f)
                            THEN "duplicate" ELSE "uploaded",
                   before |-> collection, file_id |-> upload_file_id(f.filename)]
        /\ UNCHANGED <<chat_history, clock, active_file_memory, config_collection,
                       ACTIVE_DB_NAME, req, arg>>

\* DELETE /admin/reset_chroma: every listed file is deleted from the
\* collection; a deletion that raises is logged and its file stays
reset_chroma(coll, failing) ==
    SelectSeq(coll, LAMBDA c : meta_file_id(c.meta) \in failing)

PlacesReset ==
    \E failing \in SUBSET {list_files(collection).files[i].file_id :
                               i \in DOMAIN list_files(collection).files} :
        /\ collection # <<>>
        /\ collection' = reset_chroma(collection, failing)
        /\ res' = [kind |-> "reset", before |-> collection, file_id |-> None]
        /\ UNCHANGED <<chat_history, clock, active_file_memory, config_collection,
                       uploads, ACTIVE_DB_NAME, req, arg>>

\* DELETE /delete_file/{file_id} of a listed file
PlacesDelete ==
    \E i \in DOMAIN list_files(collection).files :
        LET file_id == list_files(collection).files[i].file_id
            result == delete_file(file_id, collection, config_collection, uploads)
        IN  /\ config_collection' = result.config_collection
            /\ uploads' = result.uploads
            /\ res' = [kind |-> "deleted", before |-> collection, file_id |-> file_id]
            /\ UNCHANGED <<chat_history, clock, active_file_memory, collection,
                           ACTIVE_DB_NAME, req, arg>>

NextPlaces == PlacesUpload \/ PlacesReset \/ PlacesDelete

SpecPlaces == InitIdle /\ [][NextPlaces]_vars

-----------------------------------------------------------------------------
(* C30: the places of the documents                                        *)

\* the places stored in a collection
C30_Places(coll) == {coll[i].meta.place.v : i \in DOMAIN coll}

\* the smallest positive integer that is no place of the collection
C30_SmallestUnused(coll) ==
    CHOOSE n \in 1..(Len(coll) + 1) :
        /\ n \notin C30_Places(coll)
        /\ \A k \in 1..(n - 1) : k \in C30_Places(coll)

\* C30: two chunks have the same place exactly when they are of the same
\* document; every place is a positive integer; an accepted upload appends
\* chunks of its file_id that all carry the smallest positive integer that
\* was no place before; an upload whose file_id is already stored leaves
\* the collection as it was.
C30_PlacesIdentifyDocuments ==
    /\ \A i \in DOMAIN collection :
           /\ collection[i].meta.place.t = "int"
           /\ collection[i].meta.place.v >= 1
    /\ \A i, j \in DOMAIN collection :
           (collection[i].meta.file_id = collection[j].meta.file_id)
               <=> (collection[i].meta.place = collection[j].meta.place)
    /\ res.kind = "uploaded" =>
           /\ Len(collection) >= Len(res.before)
           /\ SubSeq(collection, 1, Len(res.before)) = res.before
           /\ \A i \in (Len(res.before) + 1)..Len(collection) :
                  /\ collection[i].meta.file_id = StrVal(res.file_id)
                  /\ collection[i].meta.place = IntVal(C30_SmallestUnused(res.before))
    /\ res.kind = "duplicate" =>
           /\ collection = res.before
           /\ \E i \in DOMAIN collection : collection[i].meta.file_id = StrVal(res.file_id)

\* a file has been uploaded into a collection whose place 1 had been freed
\* while place 2 was in use: its chunks have place 1
C30_Witness ==
    /\ res.kind = "uploaded"
    /\ Len(collection) > Len(res.before)
    /\ 2 \in C30_Places(res.before)
    /\ 1 \notin C30_Places(res.before)
    /\ collection[Len(collection)].meta.place = IntVal(1)

====
